---- MODULE Spec2Model ----
(***************************************************************************)
(* NeoGPT: the conversational tool-orchestration loop.                     *)
(*                                                                         *)
(*   - the chat route        POST /api/ai/chat   (src/unnamed/part_006)    *)
(*   - the provider adapter  streamOpenAI        (src/unnamed/part_001)    *)
(*   - the built-in tools    handleBuiltinTool   (src/services/tools.js)   *)
(*   - the remote gateway    mcpRequest, listTools, callTool,              *)
(*                           collectMCPTools     (src/services/tools.js)   *)
(*                                                                         *)
(* One chat request is followed from its arrival to the end of its         *)
(* response.  A step of the model is the code that runs between two        *)
(* suspension points (await) of the handler; the callbacks the adapter     *)
(* calls are synchronous and belong to the step that calls them.           *)
(***************************************************************************)
EXTENDS Integers, Sequences, FiniteSets, TLC

\* ------------------------------------------------------------------------
\* Program constants and model bounds
\* ------------------------------------------------------------------------

\* for (let round = 0; round < 10; round++)
MaxRounds == 10

\* q1Parsed.queries.slice(0, 4) and gapParsed.queries.slice(0, 2)
MaxInitialQueries == 4
MaxFollowUpQueries == 2

\* Bound: chunks the provider delivers in one stream.
MaxChunks == 2

\* Bound: tool-call indices the provider uses in one round (0 .. MaxTools-1).
MaxTools == 2

\* Bound: text increments the provider delivers over one request.
MaxText == 1

\* Bound: queries the provider proposes in one research answer.
MaxProposed == 5

\* The text increments a provider chunk may carry.
Deltas == {"a", " "}

\* Tool names the provider asks for: a built-in one and one that is not.
ToolNames == {"memory_save", "search"}

\* The names of BUILTIN_TOOLS.
BuiltinNames == {"memory_save", "memory_get", "web_search", "generate_image"}

\* BUILTIN_TOOLS.some(t => t.function.name === name), over ToolNames
IsBuiltin(name) == name = "memory_save"

\* The names a remote server can expose during discovery of this request.
RemoteNames == {"search"}

\* An event of the stream that belongs to no tool call carries index -1.
Ev(t) == [type |-> t, idx |-> -1]
ToolEv(t, i) == [type |-> t, idx |-> i]

Min(a, b) == IF a < b THEN a ELSE b

\* ------------------------------------------------------------------------
\* State
\* ------------------------------------------------------------------------
VARIABLES
    pc,             \* position of the chat handler
    status,         \* HTTP status of a request answered without a stream
    chatReq,        \* what the pre-stream checks of the request looked at
    aborted,        \* ac.signal.aborted
    mcpToolServerMap, \* names in the routing table of this request
    extraContext,   \* TRUE iff the research digest is non-empty
    researchN,      \* initialQueries.length while research runs, else 0
    followUp,       \* followUpQueries.length of the research recorded in events, else -1
    researchFailure, \* how that research failed: "thrown", "search", else "none"
    round,          \* streamOpenAI: round
    streams,        \* provider streams requested so far
    nchunks,        \* chunks consumed from the current stream
    toolCallsAcc,   \* streamOpenAI: index -> name of the current round
    finishReason,   \* streamOpenAI: finishReason of the current round
    toolPos,        \* position in toolCallList of the call being executed
    resultText,     \* kind of the last tool result
    toolTurns,      \* tool turns pushed to msgsCopy in the current round
    fullResponse,   \* streamOpenAI: fullResponse
    routeFull,      \* chat route: fullResponse
    doneText,       \* the argument of the last onDone call
    autoMemory,     \* onDone: cfg.auto_memory and whether extraction was launched
    events,         \* events written to the response since the current
                    \* provider stream was opened (before: since the start)
    ended,          \* res.end() was called
    lateWrite,      \* an event was written after res.end()
    nDone,          \* 'done' events written
    nError,         \* 'error' events written
    caught,         \* the error caught by streamOpenAI's catch, if any
    messages        \* rows of the conversation in the messages table

chatVars == <<pc, status, chatReq, aborted, mcpToolServerMap,
              extraContext, researchN, followUp, researchFailure, round, streams,
              nchunks, toolCallsAcc,
              finishReason, toolPos, resultText, toolTurns, fullResponse,
              routeFull, doneText, autoMemory, events, ended, lateWrite, nDone, nError,
              caught, messages>>

VARIABLES
    gwPc,           \* position of the gateway operation
    gwOp,           \* "listTools", "callTool" or a bare "mcpRequest"
    gwUrl,          \* serverUrl of the operation
    gwMethod,       \* JSON-RPC method of the request being made
    netLog,         \* the requests handed to fetch, in order
    gwReplies,      \* how each of those requests settled, in order
    gwError,        \* message of the error mcpRequest threw last, if any
    gwResult,       \* what the operation returned
    reqId           \* _reqId

gwVars == <<gwPc, gwOp, gwUrl, gwMethod, netLog, gwReplies, gwError, gwResult,
           reqId>>

VARIABLES
    discPc,         \* position of collectMCPTools and of the route around it
    servers,        \* getUserMCPServers(userId): enabled rows by created_at
    settled,        \* per server: state of its promise in Promise.allSettled
    discovered,     \* per server: what its listTools call returned
    toolServerMap,  \* collectMCPTools: name -> position of the server
    openaiTools,    \* collectMCPTools: names of the merged catalog, in order
    collectRaised,  \* collectMCPTools rejected
    callLog,        \* tools/call operations started: [name, server]
    lastExec        \* the last call of toolExecutor: [name, target]

discVars == <<discPc, servers, settled, discovered, toolServerMap, openaiTools,
              collectRaised, callLog, lastExec>>

VARIABLES
    memory,         \* memory table of the user: content -> number of rows
    memOthers,      \* further rows, with contents unlike any other row
    onlySaves,      \* only memory_save has written to the table so far
    tlCall,         \* the last tool call: name, args and context
    tlRegistry,     \* what handleBuiltinTool did in that call
    tlTurn,         \* resultText of that call (content of its tool turn)
    tlEvents,       \* events written to the response during that call
    memStatus       \* HTTP status of the last memory endpoint request

toolVars == <<memory, memOthers, onlySaves, tlCall, tlRegistry, tlTurn,
              tlEvents, memStatus>>

VARIABLES
    world           \* two states of one user, alike but for the values of the
                    \* secrets: settings, server rows, and the last response

VARIABLES
    db,             \* rows of conversations, messages, memory, settings, mcp_servers
    reply,          \* rows returned by the last request
    nextRow,        \* the next id AUTOINCREMENT hands out
    now,            \* unixepoch(), in seconds
    streamConv      \* conv.id of the chat request that is streaming, else 0

ownVars == <<db, reply, nextRow, now, streamConv>>

VARIABLES
    mcpBody,        \* the body a remote server answered a request with
    mcpOutcome      \* what mcpRequest made of it

replyVars == <<mcpBody, mcpOutcome>>

VARIABLES
    fragAcc,        \* streamOpenAI: toolCallsAcc with its id, name and args
    chunkText,      \* streamOpenAI: chunkText
    arrived,        \* the chunks of the current stream, in arrival order
    laterRound      \* the current round is not the first one

fragVars == <<fragAcc, chunkText, arrived, laterRound>>

VARIABLES
    turnPc,         \* streamOpenAI: "request", "exec", "returned" or "caught"
    turnRound,      \* streamOpenAI: round
    msgsCopy,       \* streamOpenAI: msgsCopy
    turnCalls,      \* streamOpenAI: toolCallList of the current round
    turnPos,        \* position in toolCallList of the call executed next
    requests        \* provider requests made so far

turnVars == <<turnPc, turnRound, msgsCopy, turnCalls, turnPos, requests>>

VARIABLES
    textPc,         \* streamOpenAI: "stream", "tools", "done" or "error"
    textRound,      \* streamOpenAI: round
    adapterFull,    \* streamOpenAI: fullResponse
    chatFull,       \* chat route: fullResponse
    emitted,        \* choice.delta.content of the chunks received, in order
    deltaEvents,    \* content of the delta events written, in order
    doneArg,        \* the argument of the onDone call
    saved           \* content of the assistant row inserted by onDone

textVars == <<textPc, textRound, adapterFull, chatFull, emitted, deltaEvents,
              doneArg, saved>>

VARIABLES
    histTable,      \* created_at of the messages of one conversation, by rowid
    histNow,        \* unixepoch()
    history,        \* rowids of the history the last chat request read
    apiMessages     \* the message array that request built

histVars == <<histTable, histNow, history, apiMessages>>

VARIABLES
    convTitle,      \* conversations.title of one conversation of the user
    convMessages,   \* the conversation holds messages
    titlePc,        \* the title task: "none", "timer", "stream" or "over"
    titleText       \* autoTitle: title

titleVars == <<convTitle, convMessages, titlePc, titleText>>

VARIABLES
    admConvs,       \* rows of the user in the conversations table
    admMsgs,        \* rows of those conversations in the messages table
    admKey,         \* settings: openai_api_key is set
    admReq,         \* the last chat request
    admStatus,      \* its answer: a status code, or 0 for a stream
    admSeq          \* chat requests handled so far

admVars == <<admConvs, admMsgs, admKey, admReq, admStatus, admSeq>>

VARIABLES
    cachedOpenAI,   \* _cachedOpenAI: the client of the process, with its key
    userKey,        \* per user: settings.openai_api_key
    imgPc,          \* per user: "idle", "chat" or "image" (awaiting the image)
    ctxKey,         \* per user: toolContext.apiKey of the chat request
    imgIssued       \* images.generate requests issued: user, its key, client key

imgVars == <<cachedOpenAI, userKey, imgPc, ctxKey, imgIssued>>

detailVars == <<fragVars, turnVars, textVars, histVars, titleVars, admVars, imgVars>>

storeVars == <<world, ownVars, replyVars, detailVars>>

vars == <<chatVars, gwVars, discVars, toolVars, storeVars>>

\* ------------------------------------------------------------------------
\* Helpers of the adapter
\* ------------------------------------------------------------------------

\* const hasTools = tools && tools.length > 0; the chat route passes
\* allTools = [...BUILTIN_TOOLS, ...], which is never empty.
hasTools == TRUE

\* The chat route always passes its toolExecutor.
hasExecutor == TRUE

RECURSIVE SortedSeq(_)
SortedSeq(S) ==
    IF S = {} THEN <<>>
    ELSE LET m == CHOOSE x \in S : \A y \in S : x <= y
         IN <<m>> \o SortedSeq(S \ {m})

\* Object.values(toolCallsAcc): integer keys enumerate in ascending order.
toolCallList == SortedSeq(DOMAIN toolCallsAcc)

EmptyAcc == [i \in {} |-> "memory_save"]

\* The chunks of a provider stream: an optional text increment, at most one
\* first fragment of a tool call (index -> name), an optional finish reason.
\* Further fragments of an index carry argument text only.
ChunkTcs == UNION {[D -> ToolNames] :
                     D \in {{}} \cup {{i} : i \in 0 .. MaxTools - 1}}
FinishReasons == {"null", "stop", "tool_calls"}

\* if (!toolCallsAcc[idx]) toolCallsAcc[idx] = {...}; ... += ...
AccumulateToolCalls(acc, tcs) ==
    [i \in (DOMAIN acc) \cup (DOMAIN tcs) |->
        IF i \in DOMAIN acc THEN acc[i] ELSE tcs[i]]

\* toolExecutor(name, args): the kinds of outcome by dispatch branch.
\*   "ok"        the tool ran and returned its text
\*   "toolerror" the tool returned a text that describes its failure
\*   "notfound"  `Tool "${name}" not found`
\*   "raise"     the executor threw
ExecutorOutcomes(name) ==
    IF IsBuiltin(name) THEN {"ok", "toolerror", "raise"}
    ELSE IF name \in mcpToolServerMap THEN {"ok", "toolerror", "raise"}
    ELSE {"notfound"}

\* Variant: an exception of the executor is not caught in the loop body.
ExecutorThrowEscapesOnRaise(outcome) == outcome = "raise"

\* The executor call sits in its own try/catch inside the loop body: no
\* outcome of the executor reaches the catch of the adapter.
ExecutorThrowEscapes(outcome) == FALSE

\* try { resultText = await toolExecutor(...) } catch (err) { resultText = `Error: ...` }
ToolResultText(outcome) ==
    IF outcome = "raise" THEN "Error: raised" ELSE outcome

\* The error thrown by an aborted or failing provider call.
ThrownErrors == IF aborted THEN {"AbortError", "Error"} ELSE {"Error"}

\* ------------------------------------------------------------------------
\* Callbacks of the chat route (synchronous)
\* ------------------------------------------------------------------------

\* String.prototype.trim over texts whose only white space is the blank.
RECURSIVE JsTrim(_)
JsTrim(t) ==
    IF t = <<>> THEN t
    ELSE IF Head(t) = " " THEN JsTrim(Tail(t))
    ELSE IF t[Len(t)] = " " THEN JsTrim(SubSeq(t, 1, Len(t) - 1))
    ELSE t

\* if (cfg.auto_memory !== '0' && fullResponse.trim()) extractMemories(...)
LaunchesAutoMemory(setting, text) ==
    setting # "0" /\ JsTrim(text) # <<>>

\* onDone: persist the assistant message, write 'done', end the response;
\* launch the background extraction.
RouteOnDone(evs) ==
    /\ messages' = Append(messages, [role |-> "assistant", content |-> routeFull])
    /\ events' = Append(evs, Ev("done"))
    /\ lateWrite' = (lateWrite \/ ended)
    /\ ended' = TRUE
    /\ nDone' = nDone + 1
    /\ nError' = nError
    /\ doneText' = fullResponse
    /\ \E setting \in {"0", "1"} :
         autoMemory' = [setting |-> setting,
                        launched |-> LaunchesAutoMemory(setting, routeFull)]
    /\ pc' = "done"

\* Variant: onError stores the partial response like onDone does.
RouteOnErrorPersisting(evs) ==
    /\ messages' = Append(messages, [role |-> "assistant", content |-> routeFull])
    /\ events' = Append(evs, Ev("error"))
    /\ lateWrite' = (lateWrite \/ ended)
    /\ ended' = TRUE
    /\ nDone' = nDone
    /\ nError' = nError + 1
    /\ doneText' = doneText
    /\ autoMemory' = autoMemory
    /\ pc' = "error"

\* onError: write 'error', end the response.
RouteOnError(evs) ==
    /\ messages' = messages
    /\ events' = Append(evs, Ev("error"))
    /\ lateWrite' = (lateWrite \/ ended)
    /\ ended' = TRUE
    /\ nDone' = nDone
    /\ nError' = nError + 1
    /\ doneText' = doneText
    /\ autoMemory' = autoMemory
    /\ pc' = "error"

\* Variant: the catch reports every error, an abort included.
AdapterCatchAlwaysError(err, evs) ==
    /\ caught' = err
    /\ RouteOnError(evs)

\* catch (err) { if (err.name !== 'AbortError') onError(err); else onDone(fullResponse); }
AdapterCatch(err, evs) ==
    /\ caught' = err
    /\ IF err # "AbortError" THEN RouteOnError(evs) ELSE RouteOnDone(evs)

\* ------------------------------------------------------------------------
\* Init
\* ------------------------------------------------------------------------
\* No request has been looked at yet.
NoRequest == [message |-> "none", conv |-> "none", provider |-> "none", key |-> FALSE]

ChatInit ==
    /\ pc = "idle"
    /\ status = 0
    /\ chatReq = NoRequest
    /\ aborted = FALSE
    /\ mcpToolServerMap = {}
    /\ extraContext = FALSE
    /\ researchN = 0
    /\ followUp = -1
    /\ researchFailure = "none"
    /\ round = 0
    /\ streams = 0
    /\ nchunks = 0
    /\ toolCallsAcc = EmptyAcc
    /\ finishReason = "null"
    /\ toolPos = 0
    /\ resultText = "none"
    /\ toolTurns = 0
    /\ fullResponse = <<>>
    /\ routeFull = <<>>
    /\ doneText = <<>>
    /\ autoMemory = [setting |-> "unset", launched |-> FALSE]
    /\ events = <<>>
    /\ ended = FALSE
    /\ lateWrite = FALSE
    /\ nDone = 0
    /\ nError = 0
    /\ caught = "none"
    /\ messages = <<>>


\* ------------------------------------------------------------------------
\* The chat route, before the provider exchange
\* ------------------------------------------------------------------------

\* Attachments of the request body: absent, an image part, a text part, or
\* an array holding null (JSON allows it; att.type then throws).
Attachments == {"none", "image", "text", "null"}

\* Build the message array and call streamChat -> streamOpenAI up to its
\* first await.  With a null attachment `att.type` throws a TypeError in the
\* async handler after the headers were flushed: nothing catches it and the
\* response is neither written to nor ended.
BuildAndCall(att) ==
    IF att = "null"
    THEN /\ pc' = "crashed"
         /\ UNCHANGED streams
    ELSE /\ pc' = "create"
         /\ streams' = streams + 1

\* What lines 150-176 read of a request: whether message?.trim() is empty,
\* whether a conversation id is given and found for the user ("ok": none
\* given, or found), cfg.provider, and whether openai_api_key is set.
ChatRequests ==
    [message : {"text", "blank"}, conv : {"ok", "missing"},
     provider : {"openai", "other"}, key : BOOLEAN]

\* isProviderAvailable(provider, userApiKey)
isProviderAvailable(provider, key) == provider = "openai" /\ key

\* Variant: the credential is not looked at before the stream.
ChatPrecheckNoCredential(req) ==
    IF req.message = "blank" THEN 400
    ELSE IF req.conv = "missing" THEN 404
    ELSE 0

\* Lines 150-176: the status the request is answered with before any
\* stream, or 0 if it goes on.
ChatPrecheck(req) ==
    IF req.message = "blank" THEN 400
    ELSE IF req.conv = "missing" THEN 404
    ELSE IF ~isProviderAvailable(req.provider, req.key) THEN 503
    ELSE 0

\* Lines 150-176: validation, conversation lookup, settings, credential.
\* A rejected request is answered with a status code and no stream.
ChatReject ==
    /\ pc = "idle"
    /\ \E req \in ChatRequests :
         /\ ChatPrecheck(req) # 0
         /\ chatReq' = req
         /\ status' = ChatPrecheck(req)
    /\ pc' = "rejected"
    /\ UNCHANGED <<gwVars, discVars, toolVars, storeVars>>
    /\ UNCHANGED <<aborted, mcpToolServerMap,
                   extraContext, researchN, followUp, researchFailure, round,
                   streams, nchunks,
                   toolCallsAcc, finishReason, toolPos, resultText, toolTurns,
                   fullResponse, routeFull, doneText, autoMemory, events, ended, lateWrite,
                   nDone, nError, caught, messages>>

\* Lines 150-189: the request is accepted; the handler awaits
\* collectMCPTools when the user has enabled remote servers.
ChatAccept ==
    /\ pc = "idle"
    /\ \E req \in ChatRequests :
         /\ ChatPrecheck(req) = 0
         /\ chatReq' = req
    /\ pc' = "discover"
    /\ UNCHANGED <<gwVars, discVars, toolVars, storeVars>>
    /\ UNCHANGED <<status, aborted, mcpToolServerMap,
                   extraContext, researchN, followUp, researchFailure, round,
                   streams, nchunks,
                   toolCallsAcc, finishReason, toolPos, resultText, toolTurns,
                   fullResponse, routeFull, doneText, autoMemory, events, ended, lateWrite,
                   nDone, nError, caught, messages>>

\* Variant: the user message is not stored before the stream is set up.
SaveUserMessageLater(msgs) == msgs

\* INSERT INTO messages(conversation_id, role, content) VALUES (?, 'user', ?)
SaveUserMessage(msgs) == Append(msgs, [role |-> "user", content |-> <<"m">>])

\* Lines 190-253, with m the names of the routing table that discovery
\* produced: the user message is stored, the headers are flushed, conv_id is
\* written, the close listener is registered.  In deep-research mode with a
\* search key research_start is written and the first provider call is
\* awaited; otherwise the message array is built and the adapter is called.
ChatOpenStreamWith(m) ==
    /\ pc = "discover"
    /\ mcpToolServerMap' = m
    /\ messages' = SaveUserMessage(messages)
    /\ lateWrite' = (lateWrite \/ ended)
    /\ \E research \in BOOLEAN :
         IF research
         THEN /\ events' = <<Ev("conv_id"), Ev("research_start")>>
              /\ pc' = "research_q1"
              /\ UNCHANGED streams
         ELSE /\ events' = <<Ev("conv_id")>>
              /\ \E att \in Attachments : BuildAndCall(att)
    /\ UNCHANGED <<status, chatReq, aborted, extraContext, researchN, followUp,
                   researchFailure,
                   round, nchunks, toolCallsAcc, finishReason, toolPos,
                   resultText, toolTurns, fullResponse, routeFull, doneText, autoMemory,
                   ended, nDone, nError, caught>>
    /\ UNCHANGED <<gwVars, toolVars, storeVars>>

\* The chat request with discovery taken as a whole: any routing table over
\* the remote names may come out of it.
ChatOpenStream ==
    /\ discPc = "idle"
    /\ \E m \in SUBSET RemoteNames : ChatOpenStreamWith(m)
    /\ UNCHANGED discVars

\* const ac = new AbortController(); req.on('close', () => ac.abort()):
\* the listener exists once the stream is set up.
listening == pc \notin {"idle", "rejected", "discover"}

\* The client closes the connection while the handler runs: the close
\* listener aborts the signal.
ClientClose ==
    /\ listening
    /\ pc \notin {"done", "error", "crashed"}
    /\ ~aborted
    /\ aborted' = TRUE
    /\ UNCHANGED <<gwVars, discVars, toolVars, storeVars>>
    /\ UNCHANGED <<pc, status, chatReq, mcpToolServerMap, extraContext,
                   researchN, followUp, researchFailure, round, streams, nchunks,
                   toolCallsAcc,
                   finishReason, toolPos, resultText, toolTurns, fullResponse,
                   routeFull, doneText, autoMemory, events, ended, lateWrite, nDone,
                   nError, caught, messages>>

\* ------------------------------------------------------------------------
\* Deep research (lines 247-292); none of its calls takes the signal
\* ------------------------------------------------------------------------

RECURSIVE Repeat(_, _)
Repeat(e, n) == IF n = 0 THEN <<>> ELSE <<e>> \o Repeat(e, n - 1)

researchFrame == <<gwVars, discVars, toolVars, storeVars, status, chatReq, aborted,
                   mcpToolServerMap,
                   round, nchunks, toolCallsAcc, finishReason, toolPos,
                   resultText, toolTurns, fullResponse, routeFull, doneText, autoMemory,
                   ended, nDone, nError, caught, messages>>

\* catch (err) { console.warn(...) }: research is given up, the request goes on.
ResearchFail ==
    /\ pc \in {"research_q1", "research_s1", "research_gap", "research_s2"}
    /\ \E att \in Attachments : BuildAndCall(att)
    /\ researchN' = 0
    /\ researchFailure' = "thrown"
    /\ UNCHANGED <<events, lateWrite, extraContext, followUp>>
    /\ UNCHANGED researchFrame

\* Step 1 answered: the initial queries are announced, round 1 is started.
ResearchQueries ==
    /\ pc = "research_q1"
    /\ \E k \in 0 .. MaxProposed :
         /\ researchN' = Min(k, MaxInitialQueries)
         /\ events' = events \o Repeat(Ev("research_query"), Min(k, MaxInitialQueries))
    /\ lateWrite' = (lateWrite \/ ended)
    /\ pc' = "research_s1"
    /\ UNCHANGED <<extraContext, followUp, researchFailure, streams>>
    /\ UNCHANGED researchFrame

\* runDeepResearch settles every fetch with Promise.allSettled and writes
\* "[Search i: failed]" for a rejected one: a failed search of a batch with
\* queries is no exception.
BatchFailure(failed, n, was) == IF failed /\ n > 0 THEN "search" ELSE was

\* Step 2 answered: the gap analysis is requested.
ResearchRound1 ==
    /\ pc = "research_s1"
    /\ pc' = "research_gap"
    /\ \E failed \in BOOLEAN :
         researchFailure' = BatchFailure(failed, researchN, researchFailure)
    /\ UNCHANGED <<events, lateWrite, extraContext, researchN, followUp, streams>>
    /\ UNCHANGED researchFrame

\* gapParsed.queries.slice(0, 2), or [] when it is no array: the length of
\* followUpQueries for a reply proposing k queries.
FollowUpQueries(k) == Min(k, MaxFollowUpQueries)

\* Variant: the second batch is run whatever the gap analysis returned.
RunsRound2Always(n) == TRUE

\* if (followUpQueries.length > 0)
RunsRound2(n) == n > 0

\* sse({ type: 'research_done', queryCount: ... })
ResearchDoneEv(n) == [type |-> "research_done", idx |-> n]

\* Step 3 answered with follow-up queries: they are announced and searched.
ResearchGapMore ==
    /\ pc = "research_gap"
    /\ \E k \in 0 .. MaxProposed :
         /\ RunsRound2(FollowUpQueries(k))
         /\ followUp' = FollowUpQueries(k)
         /\ events' = events \o Repeat(Ev("research_query"), FollowUpQueries(k))
    /\ lateWrite' = (lateWrite \/ ended)
    /\ pc' = "research_s2"
    /\ UNCHANGED <<extraContext, researchN, researchFailure, streams>>
    /\ UNCHANGED researchFrame

\* Research ends (no follow-up query, or round 2 answered): research_done is
\* written with initialQueries.length + followUpQueries.length; the digest
\* is the extra context unless it is the empty string (round 1 over no
\* query at all).
ResearchDone ==
    /\ pc \in {"research_gap", "research_s2"}
    /\ followUp' = (IF pc = "research_gap" THEN 0 ELSE followUp)
    /\ \E failed \in BOOLEAN :
         researchFailure' =
           IF pc = "research_s2"
           THEN BatchFailure(failed, followUp, researchFailure)
           ELSE researchFailure
    /\ extraContext' = (researchN > 0 \/ pc = "research_s2")
    /\ events' = Append(events, ResearchDoneEv(researchN + followUp'))
    /\ lateWrite' = (lateWrite \/ ended)
    /\ \E att \in Attachments : BuildAndCall(att)
    /\ researchN' = 0
    /\ UNCHANGED researchFrame


\* ------------------------------------------------------------------------
\* The provider adapter: streamOpenAI (part_001, lines 47-155)
\* ------------------------------------------------------------------------

routeFrame == <<gwVars, discVars, toolVars, storeVars, status, chatReq, aborted,
                mcpToolServerMap,
                extraContext, researchN, followUp, researchFailure>>

\* Variant: the round loop has no bound (while (true)).
NextRoundUnbounded(evs) ==
    /\ round' = round + 1
    /\ toolPos' = 0
    /\ pc' = "create"
    /\ streams' = streams + 1
    /\ events' = evs
    /\ lateWrite' = (lateWrite \/ (ended /\ evs # events))
    /\ UNCHANGED <<ended, nDone, nError, doneText, autoMemory, messages>>

\* Leave the tool loop of a round (or skip it: no tool call accumulated):
\* round++, then either the next provider request or, the bound reached,
\* the onDone that follows the for loop.
NextRound(evs) ==
    /\ round' = round + 1
    /\ toolPos' = 0
    /\ IF round + 1 < MaxRounds
       THEN /\ pc' = "create"
            /\ streams' = streams + 1
            /\ events' = evs
            /\ lateWrite' = (lateWrite \/ (ended /\ evs # events))
            /\ UNCHANGED <<ended, nDone, nError, doneText, autoMemory, messages>>
       ELSE /\ RouteOnDone(evs)
            /\ UNCHANGED streams

\* const stream = await client.chat.completions.create(params, { signal })
\* resolves: the stream of the round is open.
CreateStream ==
    /\ pc = "create"
    /\ pc' = "stream"
    /\ nchunks' = 0
    /\ toolCallsAcc' = EmptyAcc
    /\ finishReason' = "null"
    /\ events' = <<>>
    /\ resultText' = "none"
    /\ toolTurns' = 0
    /\ followUp' = -1
    /\ researchFailure' = "none"
    /\ UNCHANGED <<round, streams, toolPos, fullResponse,
                   routeFull, doneText, autoMemory, ended, lateWrite, nDone, nError, caught,
                   messages>>
    /\ UNCHANGED <<gwVars, discVars, toolVars, storeVars, status, chatReq, aborted,
                   mcpToolServerMap, extraContext, researchN>>

\* The create call or the stream iteration throws.
ProviderThrow ==
    /\ pc \in {"create", "stream"}
    /\ \E err \in ThrownErrors : AdapterCatch(err, events)
    /\ UNCHANGED <<round, streams, nchunks, toolCallsAcc, finishReason, toolPos,
                   resultText, toolTurns, fullResponse, routeFull>>
    /\ UNCHANGED routeFrame

\* for await (const chunk of stream) { ... }: one chunk.
StreamChunk ==
    /\ pc = "stream"
    /\ nchunks < MaxChunks
    /\ nchunks' = nchunks + 1
    /\ \E tcs \in ChunkTcs, fr \in FinishReasons :
         /\ toolCallsAcc' = AccumulateToolCalls(toolCallsAcc, tcs)
         /\ finishReason' = IF fr # "null" THEN fr ELSE finishReason
    /\ \/ /\ Len(fullResponse) < MaxText
          /\ \E d \in Deltas :
               /\ fullResponse' = Append(fullResponse, d)
               /\ routeFull' = Append(routeFull, d)
               /\ events' = Append(events, Ev("delta"))
          /\ lateWrite' = (lateWrite \/ ended)
       \/ UNCHANGED <<fullResponse, routeFull, events, lateWrite>>
    /\ UNCHANGED <<pc, round, streams, toolPos, resultText, toolTurns, doneText, autoMemory,
                   ended, nDone, nError, caught, messages>>
    /\ UNCHANGED routeFrame

\* The stream ends with something else than a tool round to run:
\* onDone(fullResponse); return.
StreamEndDone ==
    /\ pc = "stream"
    /\ finishReason # "tool_calls" \/ ~hasTools \/ ~hasExecutor
    /\ RouteOnDone(events)
    /\ nchunks' = 0
    /\ UNCHANGED <<round, streams, toolCallsAcc, finishReason, toolPos,
                   resultText, toolTurns, fullResponse, routeFull, caught>>
    /\ UNCHANGED routeFrame

\* The stream ends with finish reason tool_calls: the assistant turn is
\* pushed and the tool loop starts; the first call is announced and its
\* execution awaited.  With no call accumulated the loop body never runs.
StreamEndTools ==
    /\ pc = "stream"
    /\ ~(finishReason # "tool_calls" \/ ~hasTools \/ ~hasExecutor)
    /\ IF toolCallList = <<>>
       THEN NextRound(events)
       ELSE /\ toolPos' = 1
            /\ events' = Append(events, ToolEv("tool_call", toolCallList[1]))
            /\ lateWrite' = (lateWrite \/ ended)
            /\ pc' = "tool_exec"
            /\ UNCHANGED <<round, streams, ended, nDone, nError, doneText, autoMemory,
                           messages>>
    /\ nchunks' = 0
    /\ UNCHANGED <<toolCallsAcc, finishReason, resultText, toolTurns,
                   fullResponse, routeFull, caught>>
    /\ UNCHANGED routeFrame

\* Variant: the next call is announced before the result of the current one.
SettleEventsCallFirst(evs, pos) ==
    IF pos < Len(toolCallList)
    THEN Append(Append(evs, ToolEv("tool_call", toolCallList[pos + 1])),
                ToolEv("tool_result", toolCallList[pos]))
    ELSE Append(evs, ToolEv("tool_result", toolCallList[pos]))

\* The events of one settled tool call: its result, and the announcement of
\* the next call of the round if there is one.
SettleEvents(evs, pos) ==
    LET withResult == Append(evs, ToolEv("tool_result", toolCallList[pos]))
    IN IF pos < Len(toolCallList)
       THEN Append(withResult, ToolEv("tool_call", toolCallList[pos + 1]))
       ELSE withResult

\* await toolExecutor(tc.name, parsedArgs) settles (result or exception):
\* the result is announced, the tool turn pushed, and the loop goes on with
\* the next call or the next round.
ToolSettle ==
    /\ pc = "tool_exec"
    /\ \E outcome \in ExecutorOutcomes(toolCallsAcc[toolCallList[toolPos]]) :
         IF ExecutorThrowEscapes(outcome)
         THEN /\ AdapterCatch("Error", events)
              /\ UNCHANGED <<round, streams, toolPos, resultText, toolTurns>>
         ELSE /\ resultText' = ToolResultText(outcome)
              /\ toolTurns' = toolTurns + 1
              /\ caught' = caught
              /\ IF toolPos < Len(toolCallList)
                 THEN /\ toolPos' = toolPos + 1
                      /\ events' = SettleEvents(events, toolPos)
                      /\ lateWrite' = (lateWrite \/ ended)
                      /\ UNCHANGED <<pc, round, streams, ended, nDone, nError,
                                     doneText, autoMemory, messages>>
                 ELSE NextRound(SettleEvents(events, toolPos))
    /\ UNCHANGED <<nchunks, toolCallsAcc, finishReason, fullResponse, routeFull>>
    /\ UNCHANGED routeFrame

\* ------------------------------------------------------------------------
\* Specification of one chat request
\* ------------------------------------------------------------------------
Next ==
    \/ ChatReject
    \/ ChatAccept
    \/ ChatOpenStream
    \/ ClientClose
    \/ ResearchFail
    \/ ResearchQueries
    \/ ResearchRound1
    \/ ResearchGapMore
    \/ ResearchDone
    \/ CreateStream
    \/ ProviderThrow
    \/ StreamChunk
    \/ StreamEndDone
    \/ StreamEndTools
    \/ ToolSettle



\* Provider and tool calls settle: every step of the adapter that is enabled
\* is eventually taken (each await resolves or rejects).
AdapterStep ==
    \/ CreateStream
    \/ ProviderThrow
    \/ StreamChunk
    \/ StreamEndDone
    \/ StreamEndTools
    \/ ToolSettle


\* ------------------------------------------------------------------------
\* Properties of the chat request
\* ------------------------------------------------------------------------

Finished == pc \in {"done", "error", "crashed"}
StreamStarted == pc \notin {"idle", "rejected", "discover"}

IsToolEvent(e) == e.type \in {"tool_call", "tool_result"}
ToolEvents(evs) == SelectSeq(evs, IsToolEvent)
IsToolCall(e) == e.type = "tool_call"
IsToolResult(e) == e.type = "tool_result"
HasAssistant(msgs) == \E i \in 1 .. Len(msgs) : msgs[i].role = "assistant"
HasUser(msgs) == \E i \in 1 .. Len(msgs) : msgs[i].role = "user"

\* C1: every response stream that has started ends with exactly one terminal
\* event (done or error), and nothing is written after it.
C1_ExactlyOneTerminal ==
    /\ nDone + nError <= 1
    /\ ~lateWrite
    /\ (StreamStarted /\ Finished) => (nDone + nError = 1 /\ ended)

\* The same statement for the requests whose message array could be built:
\* once the adapter is called the stream gets its single terminal event.
AdapterTerminatesStream ==
    /\ nDone + nError <= 1
    /\ ~lateWrite
    /\ pc \in {"done", "error"} =>
         /\ nDone + nError = 1
         /\ ended
         /\ events[Len(events)].type = (IF pc = "done" THEN "done" ELSE "error")

\* C2: the adapter requests at most MaxRounds provider streams, whatever the
\* provider answers, and when the bound is reached it has emitted the
\* completion event.
C2_BoundedRounds ==
    /\ streams <= MaxRounds
    /\ round <= MaxRounds
    /\ streams <= round + 1
    /\ round = MaxRounds => (pc = "done" /\ nDone = 1 /\ nError = 0)

\* C2 (termination): once called, the adapter returns.
AdapterReturns == (pc = "create") ~> (pc \in {"done", "error"})

C2_Witness ==
    /\ round = MaxRounds
    /\ streams = MaxRounds
    /\ pc = "done"
    /\ finishReason = "tool_calls"

\* The tool events a finished tool round must have written, for the calls
\* of list: tool_call then tool_result of each index, in list order.
RECURSIVE ExpectedToolEvents(_)
ExpectedToolEvents(list) ==
    IF list = <<>> THEN <<>>
    ELSE <<ToolEv("tool_call", Head(list)), ToolEv("tool_result", Head(list))>>
           \o ExpectedToolEvents(Tail(list))

\* The position of the first event of type t in evs, 0 if there is none.
FirstIndexOf(evs, t) ==
    IF \E i \in 1 .. Len(evs) : evs[i].type = t
    THEN CHOOSE i \in 1 .. Len(evs) :
           /\ evs[i].type = t
           /\ \A j \in 1 .. i - 1 : evs[j].type # t
    ELSE 0

\* A tool round has run to its end: the next provider request is pending, or
\* the round bound ended the loop.
ToolRoundOver ==
    /\ round >= 1
    /\ \/ pc = "create"
       \/ pc = "done" /\ round = MaxRounds

\* C3: when a round has ended with finish reason tool_calls, exactly one
\* tool_call and one tool_result event was written per distinct tool index,
\* the call of an index before its result, all before the next provider
\* request and before the completion event.
C3_ToolEventsPerIndex ==
    /\ ToolRoundOver =>
         /\ finishReason = "tool_calls"
         /\ ToolEvents(events) = ExpectedToolEvents(toolCallList)
         /\ pc = "done" => FirstIndexOf(events, "done") = Len(events)
    /\ pc = "tool_exec" =>
         ToolEvents(events) =
           SubSeq(ExpectedToolEvents(toolCallList), 1, 2 * toolPos - 1)

C3_Witness ==
    /\ pc = "create"
    /\ round >= 1
    /\ Len(toolCallList) = MaxTools
    /\ events[1].type = "delta"

\* C4: when the adapter observes the client's cancellation, no assistant
\* message is persisted for the request.
C4_NoAssistantOnAbort == caught = "AbortError" => ~HasAssistant(messages)

\* C5: an abort is never reported as an error: the adapter emits the
\* completion event with the text accumulated so far and no error event.
C5_AbortIsCompletion ==
    caught = "AbortError" =>
      /\ pc = "done"
      /\ nDone = 1
      /\ nError = 0
      /\ doneText = fullResponse
      /\ \A i \in 1 .. Len(events) : events[i].type # "error"

C5_Witness ==
    /\ caught = "AbortError"
    /\ round >= 1
    /\ Len(doneText) > 0

\* C6: a provider failure that is not an abort gives error as the terminal
\* event, persists no assistant message and keeps the user message.
C6_ProviderErrorTerminal ==
    caught = "Error" =>
      /\ pc = "error"
      /\ nError = 1
      /\ nDone = 0
      /\ ended
      /\ events[Len(events)].type = "error"
      /\ ~HasAssistant(messages)
      /\ HasUser(messages)

C6_Witness ==
    /\ caught = "Error"
    /\ round >= 1
    /\ Len(routeFull) > 0
    /\ Len(ToolEvents(events)) > 0

\* C20: once the first event is written, or a research, provider or tool
\* call of the exchange has started, the user message of the request is
\* stored, and it stays stored when the request completes, fails, is
\* cancelled or breaks off.
C20_UserMessageFirst ==
    /\ (events # <<>> \/ streams > 0 \/ round > 0 \/ StreamStarted) =>
         HasUser(messages)
    /\ Finished => messages[1].role = "user"

\* A cancelled request after a tool round.
C20_Witness ==
    /\ pc = "done"
    /\ aborted
    /\ streams >= 2
    /\ messages[1].role = "user"

\* C21: the background extraction is launched only after a completion that
\* is no provider error and no cancellation, with a response that is not
\* blank and with auto-memory enabled.
C21_AutoMemoryOnlyOnSuccess ==
    autoMemory.launched =>
      /\ caught = "none"
      /\ nError = 0
      /\ autoMemory.setting # "0"
      /\ JsTrim(routeFull) # <<>>

\* Extraction is never launched after an error event, for a blank response
\* or with the setting off.
AutoMemoryGuarded ==
    autoMemory.launched =>
      /\ nError = 0
      /\ autoMemory.setting # "0"
      /\ JsTrim(routeFull) # <<>>

\* A call of the research sub-orchestrator returns its result to the handler.
ResearchCallCompletes ==
    \/ pc = "research_q1" /\ pc' = "research_s1"
    \/ pc = "research_s1" /\ pc' = "research_gap"
    \/ pc = "research_gap" /\ pc' = "research_s2"
    \/ /\ pc \in {"research_gap", "research_s2"}
       /\ Len(events') = Len(events) + 1
       /\ events'[Len(events')].type = "research_done"

\* C24: when the gap analysis returns no query, the second batch is not run,
\* every research_query event belongs to the first round (at most
\* MaxInitialQueries of them, none after research_done), and research_done
\* reports the first round's count; in every case research_start, the
\* research_query events and research_done precede the first delta event
\* (events holds what was written since the last round began: no delta has
\* been written or accumulated while it holds a research event).
ResearchTypes == {"research_start", "research_query", "research_done"}

Count(evs, t) == Cardinality({i \in DOMAIN evs : evs[i].type = t})

C24_EmptyGapOneRound ==
    /\ followUp = 0 =>
          /\ pc # "research_s2"
          /\ Count(events, "research_query") <= MaxInitialQueries
          /\ Count(events, "research_done") = 1
          /\ \A i \in DOMAIN events :
                events[i].type = "research_done" =>
                  /\ events[i].idx = Count(events, "research_query")
                  /\ \A j \in DOMAIN events :
                        events[j].type = "research_query" => j < i
    /\ pc = "research_gap" => researchN = Count(events, "research_query")
    /\ (\E j \in DOMAIN events : events[j].type \in ResearchTypes) =>
          /\ Count(events, "delta") = 0
          /\ fullResponse = <<>>
          /\ nchunks = 0

\* Deep research over two queries whose gap analysis returned no query; the
\* provider exchange is about to start.
C24_Witness ==
    /\ followUp = 0
    /\ Count(events, "research_query") = 2
    /\ \E i \in DOMAIN events :
          events[i].type = "research_done" /\ events[i].idx = 2
    /\ pc = "create"

\* C29: a failure at a step of the research leaves the prompt without the
\* research context message, and up to the provider exchange no error
\* event is written and the stream is not ended.
ResearchPcs == {"research_q1", "research_s1", "research_gap", "research_s2"}

ResearchThrowContained ==
    researchFailure = "thrown" =>
      /\ ~extraContext
      /\ pc \in {"create", "crashed"} =>
           /\ nError = 0
           /\ Count(events, "error") = 0
           /\ ~ended

\* C22: once the client has disconnected, no query-generation, gap-analysis
\* or search call of the research sub-orchestrator runs on to completion
\* (the provider stream is the one call that is given the signal).
C22_AbortReachesChildren ==
    [][aborted => ~ResearchCallCompletes]_vars

\* C23: a request of a user without a usable credential for the selected
\* provider is answered with a status before any stream: no event is
\* written, no user message is stored, and no discovery, research or
\* provider call is made.
C23_NoCredentialRejected ==
    (chatReq # NoRequest /\ ~isProviderAvailable(chatReq.provider, chatReq.key)) =>
      /\ pc = "rejected"
      /\ status = (IF chatReq.message = "blank" THEN 400
                   ELSE IF chatReq.conv = "missing" THEN 404 ELSE 503)
      /\ events = <<>>
      /\ ~ended
      /\ messages = <<>>
      /\ streams = 0
      /\ round = 0
      /\ discPc = "idle"
      /\ netLog = <<>>

\* A well-formed request of a user with no key is answered 503.
C23_Witness ==
    /\ pc = "rejected"
    /\ status = 503
    /\ chatReq = [message |-> "text", conv |-> "ok", provider |-> "openai",
                  key |-> FALSE]
    /\ events = <<>>

FailureTexts == {"Error: raised", "toolerror", "notfound"}

\* C7: a failing tool execution does not cut the round or the request short:
\* its error text is the result, the tool_result event is written and the
\* tool turn pushed, every announced call is answered before the request
\* ends, and an error event comes from a provider failure only.
C7_ToolFailureContained ==
    /\ resultText \in FailureTexts =>
         /\ Len(SelectSeq(events, IsToolResult)) = toolTurns
         /\ toolTurns >= 1
         /\ ToolEvents(events)[2 * toolTurns] =
              ToolEv("tool_result", toolCallList[toolTurns])
         /\ pc \in {"tool_exec", "create", "done", "error"}
         /\ pc = "done" => (round = MaxRounds \/ caught = "AbortError")
    /\ Finished =>
         Len(SelectSeq(events, IsToolCall)) = Len(SelectSeq(events, IsToolResult))
    /\ nError > 0 => (caught = "Error" /\ pc = "error")

C7_Witness ==
    /\ resultText = "Error: raised"
    /\ pc = "tool_exec"
    /\ toolPos = 2
    /\ nError = 0


\* ------------------------------------------------------------------------
\* The remote gateway: URL validation (tools.js, lines 244-256)
\* ------------------------------------------------------------------------

\* Text is a sequence of one-character strings.
Digit(n) == CASE n = 0 -> "0" [] n = 1 -> "1" [] n = 2 -> "2" [] n = 3 -> "3"
              [] n = 4 -> "4" [] n = 5 -> "5" [] n = 6 -> "6" [] n = 7 -> "7"
              [] n = 8 -> "8" [] n = 9 -> "9"

\* The decimal numeral of n.
RECURSIVE Decimal(_)
Decimal(n) == IF n < 10 THEN <<Digit(n)>>
              ELSE Decimal(n \div 10) \o <<Digit(n % 10)>>

IsDigit(c) == c \in {"0", "1", "2", "3", "4", "5", "6", "7", "8", "9"}

\* ASCII lower case of the letters that occur in the hosts below.
LowerChar(c) ==
    CASE c = "L" -> "l" [] c = "O" -> "o" [] c = "C" -> "c" [] c = "A" -> "a"
      [] c = "H" -> "h" [] c = "S" -> "s" [] c = "T" -> "t" [] c = "F" -> "f"
      [] c = "D" -> "d" [] c = "E" -> "e"
      [] OTHER -> c

LowerText(t) == [i \in 1 .. Len(t) |-> LowerChar(t[i])]

StartsWith(t, prefix) ==
    /\ Len(t) >= Len(prefix)
    /\ SubSeq(t, 1, Len(prefix)) = prefix

\* Host names and bracketed IPv6 literals as they are written in a URL.
LOCALHOST == <<"l", "o", "c", "a", "l", "h", "o", "s", "t">>
NamedHosts == {
    LOCALHOST,
    <<"L", "o", "c", "a", "l", "H", "o", "s", "t">>,
    <<"e", "x", "a", "m", "p", "l", "e", ".", "c", "o", "m">>,
    <<"a", "p", "i", ".", "t", "e", "s", "t">>,
    <<"l", "o", "c", "a", "l", "h", "o", "s", "t", ".", "t", "e", "s", "t">>,
    <<"f", "c", ".", "t", "e", "s", "t">>,
    <<"[", ":", ":", "1", "]">>,
    <<"[", "f", "c", "0", "0", ":", ":", "1", "]">>,
    <<"[", "F", "D", "0", "0", ":", ":", "1", "]">>,
    <<"[", "f", "e", "8", "0", ":", ":", "1", "]">>,
    <<"[", "2", "0", "0", "1", ":", "d", "b", "8", ":", ":", "1", "]">> }

\* IPv4 hosts: the octets around every boundary of the blocked ranges.
FirstOctets == {9, 10, 11, 126, 127, 128, 169, 172, 192, 193}
SecondOctets == {0, 15, 16, 19, 20, 29, 30, 31, 32, 167, 168, 169, 253, 254}
IPv4Hosts == {<<a, b, 0, c>> : a \in FirstOctets, b \in SecondOctets, c \in {1, 255}}

NoOctets == <<>>
NoName == <<>>

\* The URLs handed to the gateway.  form "relative" is a string that is no
\* absolute URL (new URL throws); scheme is the protocol without its colon.
UrlInputs ==
    {[form |-> "absolute", scheme |-> sc, hostKind |-> "ipv4", octets |-> o,
      name |-> NoName] : sc \in {"http", "https"}, o \in IPv4Hosts}
    \cup
    {[form |-> "absolute", scheme |-> sc, hostKind |-> "name", octets |-> NoOctets,
      name |-> n] : sc \in {"http", "https"}, n \in NamedHosts}
    \cup
    {[form |-> "absolute", scheme |-> sc, hostKind |-> "name", octets |-> NoOctets,
      name |-> n] : sc \in {"ftp", "file", "ws"},
                    n \in {<<"e", "x", "a", "m", "p", "l", "e", ".", "c", "o", "m">>}}
    \cup
    {[form |-> "relative", scheme |-> "none", hostKind |-> "name",
      octets |-> NoOctets, name |-> n] :
        n \in {NoName, <<"e", "x", "a", "m", "p", "l", "e", ".", "c", "o", "m">>}}

\* URL.hostname: an IPv4 host is serialised in dotted decimal whatever its
\* notation in the input; a name is lower-cased; an IPv6 literal keeps its
\* brackets.
Hostname(u) ==
    IF u.hostKind = "ipv4"
    THEN Decimal(u.octets[1]) \o <<".">> \o Decimal(u.octets[2]) \o <<".">>
           \o Decimal(u.octets[3]) \o <<".">> \o Decimal(u.octets[4])
    ELSE LowerText(u.name)

\* 172\.(1[6-9]|2\d|3[01])\.  applied at the start of h.
MatchesPrivate172Variant(h) ==
    /\ StartsWith(h, <<"1", "7", "2", ".">>)
    /\ Len(h) >= 7
    /\ h[5] = "1" /\ h[6] \in {"6", "7", "8", "9"}
    /\ h[7] = "."

MatchesPrivate172(h) ==
    /\ StartsWith(h, <<"1", "7", "2", ".">>)
    /\ Len(h) >= 7
    /\ \/ h[5] = "1" /\ h[6] \in {"6", "7", "8", "9"}
       \/ h[5] = "2" /\ IsDigit(h[6])
       \/ h[5] = "3" /\ h[6] \in {"0", "1"}
    /\ h[7] = "."

\* /^(127\.|10\.|172\.(1[6-9]|2\d|3[01])\.|192\.168\.|169\.254\.|::1|fc|fd|fe80)/i
PRIVATE_IP_RE(host) ==
    LET h == LowerText(host)
    IN \/ StartsWith(h, <<"1", "2", "7", ".">>)
       \/ StartsWith(h, <<"1", "0", ".">>)
       \/ MatchesPrivate172(h)
       \/ StartsWith(h, <<"1", "9", "2", ".", "1", "6", "8", ".">>)
       \/ StartsWith(h, <<"1", "6", "9", ".", "2", "5", "4", ".">>)
       \/ StartsWith(h, <<":", ":", "1">>)
       \/ StartsWith(h, <<"f", "c">>)
       \/ StartsWith(h, <<"f", "d">>)
       \/ StartsWith(h, <<"f", "e", "8", "0">>)

ErrInvalidUrl == "Invalid MCP server URL"
ErrProtocol == "MCP server URL must use http or https"
ErrPrivate == "MCP server URL must not point to a private or loopback address"
UrlOk == "ok"

\* validateMcpUrl(rawUrl): the message of the error it throws, or UrlOk.
validateMcpUrl(u) ==
    IF u.form # "absolute" THEN ErrInvalidUrl
    ELSE IF u.scheme \notin {"http", "https"} THEN ErrProtocol
    ELSE IF PRIVATE_IP_RE(Hostname(u)) \/ Hostname(u) = LOCALHOST THEN ErrPrivate
    ELSE UrlOk


\* ------------------------------------------------------------------------
\* The remote gateway: mcpRequest, listTools, callTool (lines 258-373)
\* ------------------------------------------------------------------------

Methods == {"initialize", "tools/list", "tools/call"}
GatewayOps == {"listTools", "callTool", "mcpRequest"}

\* What comes back from fetch and from reading the body.
Replies == {"json_result", "json_error", "http_error", "network_error",
            "timeout", "sse_result", "sse_error", "sse_closed"}

\* Variant: an HTTP error status is not checked.
ReplySucceedsIgnoringStatus(r) == r \in {"json_result", "sse_result", "http_error"}

ReplySucceeds(r) == r \in {"json_result", "sse_result"}

\* The message of the error a failing reply makes mcpRequest throw.
ReplyError(r) ==
    CASE r = "json_error" -> "MCP error"
      [] r = "sse_error" -> "MCP error"
      [] r = "http_error" -> "MCP server responded with a status"
      [] r = "sse_closed" -> "MCP server closed without sending a result"
      [] r = "timeout" -> "aborted"
      [] OTHER -> "fetch failed"

\* Variant: callTool has no try/catch of its own.
GwThrowUncaught(op, msg) ==
    /\ gwError' = msg
    /\ IF op \in {"mcpRequest", "callTool"}
       THEN /\ gwPc' = "thrown"
            /\ gwResult' = "none"
       ELSE /\ gwPc' = "returned"
            /\ gwResult' = "[]"

\* An error leaves mcpRequest: a bare mcpRequest throws it; listTools
\* catches it and returns []; callTool catches it and returns one text block.
GwThrow(op, msg) ==
    /\ gwError' = msg
    /\ IF op = "mcpRequest"
       THEN /\ gwPc' = "thrown"
            /\ gwResult' = "none"
       ELSE /\ gwPc' = "returned"
            /\ gwResult' = IF op = "listTools" THEN "[]" ELSE "tool_error_block"

\* mcpRequest(serverUrl, method, ...) up to its await of fetch: the URL is
\* validated first; then the body takes the next id and fetch is called.
McpRequestBegin(op, u, method) ==
    /\ gwMethod' = method
    /\ IF validateMcpUrl(u) # UrlOk
       THEN /\ GwThrow(op, validateMcpUrl(u))
            /\ UNCHANGED <<netLog, reqId>>
       ELSE /\ netLog' = Append(netLog, [url |-> u, method |-> method, id |-> reqId])
            /\ reqId' = reqId + 1
            /\ gwPc' = "fetch"
            /\ UNCHANGED <<gwError, gwResult>>

\* An operation of the gateway is called.
GwCall ==
    /\ gwPc = "idle"
    /\ \E op \in GatewayOps, u \in UrlInputs, m \in Methods :
         /\ op # "mcpRequest" => m = "initialize"
         /\ gwOp' = op
         /\ gwUrl' = u
         /\ McpRequestBegin(op, u, m)
    /\ UNCHANGED gwReplies
    /\ UNCHANGED <<chatVars, discVars, toolVars, storeVars>>

\* The request in flight settles.  After a successful initialize, listTools
\* and callTool make their second request; any failure ends the operation.
GwReply ==
    /\ gwPc = "fetch"
    /\ \E r \in Replies :
         /\ gwReplies' = Append(gwReplies, r)
         /\ IF ~ReplySucceeds(r)
            THEN /\ GwThrow(gwOp, ReplyError(r))
                 /\ UNCHANGED <<gwMethod, netLog, reqId>>
            ELSE IF gwOp # "mcpRequest" /\ gwMethod = "initialize"
            THEN McpRequestBegin(gwOp, gwUrl,
                                 IF gwOp = "listTools" THEN "tools/list"
                                 ELSE "tools/call")
            ELSE /\ gwPc' = "returned"
                 /\ gwResult' = "result"
                 /\ UNCHANGED <<gwMethod, netLog, gwError, reqId>>
    /\ UNCHANGED <<gwOp, gwUrl>>
    /\ UNCHANGED <<chatVars, discVars, toolVars, storeVars>>

GwInit ==
    /\ gwPc = "idle"
    /\ gwOp = "none"
    /\ gwUrl = [form |-> "relative", scheme |-> "none", hostKind |-> "name",
                octets |-> NoOctets, name |-> NoName]
    /\ gwMethod = "none"
    /\ netLog = <<>>
    /\ gwReplies = <<>>
    /\ gwError = "none"
    /\ gwResult = "none"
    /\ reqId = 1

GatewayNext ==
    \/ GwCall
    \/ GwReply

\* ------------------------------------------------------------------------
\* Properties of the gateway
\* ------------------------------------------------------------------------

\* Loopback, RFC 1918 and link-local IPv4 addresses, by their octets.
IsPrivateIPv4(o) ==
    \/ o[1] = 127
    \/ o[1] = 10
    \/ o[1] = 172 /\ o[2] >= 16 /\ o[2] <= 31
    \/ o[1] = 192 /\ o[2] = 168
    \/ o[1] = 169 /\ o[2] = 254

MustReject(u) ==
    \/ u.form # "absolute"
    \/ u.scheme \notin {"http", "https"}
    \/ u.hostKind = "name" /\ LowerText(u.name) = LOCALHOST
    \/ u.hostKind = "ipv4" /\ IsPrivateIPv4(u.octets)

\* C10: for a URL whose host is localhost or a loopback, private or
\* link-local IPv4 address, and for a URL that is not absolute http(s),
\* mcpRequest fails with a descriptive error and fetch is never called,
\* whatever the method.
C10_PrivateUrlRejected ==
    /\ \A i \in 1 .. Len(netLog) : ~MustReject(netLog[i].url)
    /\ (gwPc # "idle" /\ MustReject(gwUrl)) =>
         /\ netLog = <<>>
         /\ gwError \in {ErrInvalidUrl, ErrProtocol, ErrPrivate}
         /\ gwPc = (IF gwOp = "mcpRequest" THEN "thrown" ELSE "returned")

C10_Witness ==
    /\ gwOp = "mcpRequest"
    /\ gwMethod = "tools/call"
    /\ gwPc = "thrown"
    /\ gwUrl.hostKind = "ipv4"
    /\ gwUrl.octets[1] = 172
    /\ gwUrl.octets[2] = 31
    /\ gwError = ErrPrivate
    /\ netLog = <<>>

\* The address inside the brackets of an IPv6 literal, lower-cased.
IPv6Address(u) == SubSeq(LowerText(u.name), 2, Len(u.name) - 1)

IsIPv6Literal(u) ==
    /\ u.form = "absolute"
    /\ u.hostKind = "name"
    /\ Len(u.name) >= 2
    /\ u.name[1] = "["

\* Loopback ::1, unique-local fc00::/7 and link-local fe80::/10.
IsPrivateIPv6(u) ==
    /\ IsIPv6Literal(u)
    /\ \/ IPv6Address(u) = <<":", ":", "1">>
       \/ StartsWith(IPv6Address(u), <<"f", "c">>)
       \/ StartsWith(IPv6Address(u), <<"f", "d">>)
       \/ StartsWith(IPv6Address(u), <<"f", "e", "8">>)
       \/ StartsWith(IPv6Address(u), <<"f", "e", "9">>)
       \/ StartsWith(IPv6Address(u), <<"f", "e", "a">>)
       \/ StartsWith(IPv6Address(u), <<"f", "e", "b">>)

\* C11: a URL whose host is a bracketed IPv6 loopback, unique-local or
\* link-local address is rejected and fetch is never called with it.
C11_PrivateIPv6Rejected ==
    /\ \A i \in 1 .. Len(netLog) : ~IsPrivateIPv6(netLog[i].url)
    /\ (gwPc # "idle" /\ IsPrivateIPv6(gwUrl)) =>
         /\ netLog = <<>>
         /\ gwError = ErrPrivate

MaxServers == 2

\* An entry of a tools array that is no object (t.name throws).
NullTool == "<null>"

\* The tools arrays a server may answer tools/list with.
ToolLists == {
    <<>>,
    <<"search">>,
    <<"fetch">>,
    <<"search", "fetch">>,
    <<"fetch", "search">>,
    <<"search", "search">>,
    <<"search", NullTool, "fetch">>,
    <<"memory_save", "search">> }

DiscFailed == <<"<failed>">>
NotDiscovered == <<"<none>">>

PublicUrl == [form |-> "absolute", scheme |-> "https", hostKind |-> "name",
              octets |-> NoOctets,
              name |-> <<"a", "p", "i", ".", "t", "e", "s", "t">>]
LoopbackUrl == [form |-> "absolute", scheme |-> "http", hostKind |-> "ipv4",
                octets |-> <<127, 0, 0, 1>>, name |-> NoName]

\* Rows of mcp_servers: the URL and the outcome of buildAuth(srv) ("bad":
\* auth_data is the JSON text null, so data.token throws).
ServerRows == [url : {PublicUrl, LoopbackUrl}, auth : {"none", "token", "bad"}]

ServerLists == UNION {[1 .. n -> ServerRows] : n \in 0 .. MaxServers}

\* Variant: the loop stops at the first name that is already mapped.
RECURSIVE MergeToolsStopAtCollision(_, _, _, _)
MergeToolsStopAtCollision(map, cat, i, tools) ==
    IF tools = <<>> THEN [map |-> map, cat |-> cat, threw |-> FALSE]
    ELSE IF Head(tools) = NullTool THEN [map |-> map, cat |-> cat, threw |-> TRUE]
    ELSE IF Head(tools) \in DOMAIN map
    THEN [map |-> map, cat |-> cat, threw |-> FALSE]
    ELSE MergeToolsStopAtCollision(map @@ (Head(tools) :> i),
                                   Append(cat, Head(tools)), i, Tail(tools))

\* for (const t of tools) { if (!toolServerMap.has(t.name)) { set; push } }
\* run by the callback of server i; threw: the loop ended in a TypeError.
RECURSIVE MergeTools(_, _, _, _)
MergeTools(map, cat, i, tools) ==
    IF tools = <<>> THEN [map |-> map, cat |-> cat, threw |-> FALSE]
    ELSE IF Head(tools) = NullTool THEN [map |-> map, cat |-> cat, threw |-> TRUE]
    ELSE IF Head(tools) \in DOMAIN map
    THEN MergeTools(map, cat, i, Tail(tools))
    ELSE MergeTools(map @@ (Head(tools) :> i), Append(cat, Head(tools)), i,
                    Tail(tools))

\* listTools(url, auth): what it can resolve with.  Every error of the two
\* requests, URL validation included, is caught and gives [].
ListToolsResults(u) ==
    IF validateMcpUrl(u) # UrlOk THEN {DiscFailed}
    ELSE {DiscFailed} \cup ToolLists

\* The array listTools hands to the merge loop.
ToolsOf(result) == IF result = DiscFailed THEN <<>> ELSE result

\* Promise.allSettled never rejects, whatever its promises did.
AllSettledRejects(st) == FALSE

EmptyMap == [n \in {} |-> 0]

\* The route calls collectMCPTools(mcpServers) (skipped for no server): each
\* callback runs to its await of listTools; buildAuth may throw before it.
DiscStart ==
    /\ pc = "discover"
    /\ discPc = "idle"
    /\ \E list \in ServerLists :
         /\ servers' = list
         /\ settled' = [i \in DOMAIN list |->
                          IF list[i].auth = "bad" THEN "rejected" ELSE "pending"]
         /\ discovered' = [i \in DOMAIN list |-> NotDiscovered]
    /\ discPc' = "waiting"
    /\ UNCHANGED <<toolServerMap, openaiTools, collectRaised, callLog, lastExec>>
    /\ UNCHANGED <<chatVars, gwVars, toolVars, storeVars>>

\* listTools of server i resolves and its callback merges the tools.
DiscSettle ==
    /\ discPc = "waiting"
    /\ \E i \in DOMAIN servers :
         /\ settled[i] = "pending"
         /\ \E result \in ListToolsResults(servers[i].url) :
              LET m == MergeTools(toolServerMap, openaiTools, i, ToolsOf(result))
              IN /\ discovered' = [discovered EXCEPT ![i] = result]
                 /\ toolServerMap' = m.map
                 /\ openaiTools' = m.cat
                 /\ settled' = [settled EXCEPT ![i] =
                                  IF m.threw THEN "rejected" ELSE "fulfilled"]
    /\ UNCHANGED <<discPc, servers, collectRaised, callLog, lastExec>>
    /\ UNCHANGED <<chatVars, gwVars, toolVars, storeVars>>

\* Every promise has settled: collectMCPTools returns.
DiscResolve ==
    /\ discPc = "waiting"
    /\ \A i \in DOMAIN servers : settled[i] # "pending"
    /\ collectRaised' = AllSettledRejects(settled)
    /\ discPc' = "resolved"
    /\ UNCHANGED <<servers, settled, discovered, toolServerMap, openaiTools, callLog,
                   lastExec>>
    /\ UNCHANGED <<chatVars, gwVars, toolVars, storeVars>>

\* The route goes on after the try/catch around collectMCPTools: with the
\* routing table, or with the empty one if the call raised.
DiscProceed ==
    /\ discPc = "resolved"
    /\ ChatOpenStreamWith(IF collectRaised THEN {} ELSE DOMAIN toolServerMap)
    /\ discPc' = "proceeded"
    /\ UNCHANGED <<servers, settled, discovered, toolServerMap, openaiTools,
                   collectRaised, callLog, lastExec>>

\* The names the provider may ask for: a built-in, discovered ones and
\* one that nobody offers.
ExecNames == {"memory_save", "search", "fetch", "other"}

\* Variant: the routing table is looked up before the built-in names.
DispatchRemoteFirst(name, table) ==
    IF name \in table THEN "remote"
    ELSE IF name \in BuiltinNames THEN "registry"
    ELSE "notfound"

\* toolExecutor(name, args): where the call goes.
Dispatch(name, table) ==
    IF name \in BuiltinNames THEN "registry"
    ELSE IF name \in table THEN "remote"
    ELSE "notfound"

\* toolExecutor is called: a built-in name goes to handleBuiltinTool; for
\* another name the server the routing table gives is called with
\* tools/call; a name in neither gives the not-found text.
DiscInvoke ==
    /\ discPc = "proceeded"
    /\ \E name \in ExecNames :
         LET target == Dispatch(name, mcpToolServerMap)
         IN /\ lastExec' = [name |-> name, target |-> target]
            /\ callLog' =
                 IF target = "remote"
                 THEN callLog \cup {[name |-> name, server |-> toolServerMap[name]]}
                 ELSE callLog
    /\ UNCHANGED <<discPc, servers, settled, discovered, toolServerMap,
                   openaiTools, collectRaised>>
    /\ UNCHANGED <<chatVars, gwVars, toolVars, storeVars>>

DiscInit ==
    /\ discPc = "idle"
    /\ servers = <<>>
    /\ settled = <<>>
    /\ discovered = <<>>
    /\ toolServerMap = EmptyMap
    /\ openaiTools = <<>>
    /\ collectRaised = FALSE
    /\ callLog = {}
    /\ lastExec = [name |-> "none", target |-> "none"]

DiscoveryNext ==
    \/ ChatAccept
    \/ DiscStart
    \/ DiscSettle
    \/ DiscResolve
    \/ DiscProceed
    \/ DiscInvoke

\* ------------------------------------------------------------------------
\* Properties of discovery
\* ------------------------------------------------------------------------

Range(f) == {f[x] : x \in DOMAIN f}

\* The names the callback of server i reached in the array it got.
RECURSIVE BeforeNull(_)
BeforeNull(tools) ==
    IF tools = <<>> \/ Head(tools) = NullTool THEN {}
    ELSE {Head(tools)} \cup BeforeNull(Tail(tools))

Offered(i) ==
    IF discovered[i] \in {NotDiscovered, DiscFailed} THEN {}
    ELSE BeforeNull(discovered[i])

DiscoverySucceeded(i) ==
    /\ settled[i] = "fulfilled"
    /\ discovered[i] # DiscFailed

\* The first server, in the order of the server list, that offered name.
FirstServerFor(name) ==
    CHOOSE i \in DOMAIN servers :
      /\ name \in Offered(i)
      /\ \A j \in DOMAIN servers : name \in Offered(j) => i <= j

CollectDone == discPc \in {"resolved", "proceeded"}

\* C8: a name that several servers expose is mapped to the first of them in
\* the order of the server list, whatever the order of the replies, and no
\* call for it goes to a later server.
C8_FirstEnumeratedWins ==
    /\ CollectDone =>
         \A name \in DOMAIN toolServerMap : toolServerMap[name] = FirstServerFor(name)
    /\ \A c \in callLog : c.server = FirstServerFor(c.name)

\* C9: collectMCPTools returns without raising; every tool of every server
\* whose discovery succeeded is in the merged catalog and routed to a server
\* that offers it, whatever happened to the other servers; the request goes
\* on and nothing of it reaches the client.
C9_DiscoveryIsolated ==
    /\ CollectDone =>
         /\ ~collectRaised
         /\ \A i \in DOMAIN servers :
              DiscoverySucceeded(i) =>
                \A name \in Range(discovered[i]) :
                  /\ name \in DOMAIN toolServerMap
                  /\ name \in Range(openaiTools)
         /\ \A name \in DOMAIN toolServerMap : name \in Offered(toolServerMap[name])
         /\ Range(openaiTools) = DOMAIN toolServerMap
         /\ Len(openaiTools) = Cardinality(DOMAIN toolServerMap)
    /\ discPc = "proceeded" =>
         /\ mcpToolServerMap = DOMAIN toolServerMap
         /\ pc \notin {"idle", "discover", "rejected"}
         /\ status = 0
         /\ nError = 0
         /\ \A k \in 1 .. Len(events) : events[k].type # "error"
         /\ HasUser(messages)

C9_Witness ==
    /\ discPc = "proceeded"
    /\ Len(servers) = 2
    /\ validateMcpUrl(servers[1].url) = ErrPrivate
    /\ discovered[1] = DiscFailed
    /\ discovered[2] = <<"search", "fetch">>
    /\ mcpToolServerMap = {"search", "fetch"}

\* C18: a built-in name goes to the registry and never to a remote server,
\* also when a discovered tool has the same name; another name goes to the
\* server the routing table records for it; a name in neither gives the
\* not-found text and no tools/call is started.
C18_BuiltinPriority ==
    /\ \A c \in callLog :
         /\ c.name \notin BuiltinNames
         /\ c.name \in DOMAIN toolServerMap
         /\ c.server = toolServerMap[c.name]
    /\ lastExec.name # "none" =>
         /\ lastExec.name \in BuiltinNames => lastExec.target = "registry"
         /\ (lastExec.name \notin BuiltinNames
               /\ lastExec.name \in DOMAIN toolServerMap) =>
              /\ lastExec.target = "remote"
              /\ \E c \in callLog : c.name = lastExec.name
         /\ (lastExec.name \notin BuiltinNames
               /\ lastExec.name \notin DOMAIN toolServerMap) =>
              /\ lastExec.target = "notfound"
              /\ \A c \in callLog : c.name # lastExec.name

\* The built-in memory_save is called while a server offers a tool of the
\* same name.
C18_Witness ==
    /\ lastExec = [name |-> "memory_save", target |-> "registry"]
    /\ "memory_save" \in DOMAIN toolServerMap
    /\ \E c \in callLog : c.name = "search"

\* The function names of BUILTIN_TOOLS, in order.
BUILTIN_TOOLS == <<"memory_save", "memory_get", "web_search", "generate_image">>

\* let allTools = [...BUILTIN_TOOLS]; allTools = [...allTools, ...openaiTools]
\* unless collectMCPTools raised: the catalog handed to streamChat.
allTools(raised, remote) == BUILTIN_TOOLS \o (IF raised THEN <<>> ELSE remote)

Distinct(names) ==
    \A i, j \in DOMAIN names : i # j => names[i] # names[j]

\* C38: the catalog the route goes on with holds no function name twice.
C38_CatalogNamesDistinct ==
    discPc = "proceeded" => Distinct(allTools(collectRaised, openaiTools))

\* The discovered part of the catalog holds no name twice.
RemoteNamesDistinct == Distinct(openaiTools)

\* ------------------------------------------------------------------------
\* The memory table and the text functions applied to its contents
\* ------------------------------------------------------------------------

\* Per-user cap checked by the memory endpoint.
MemoryCap == 500

\* Bound: rows with one and the same content.
MaxCopies == 2

\* Bound: rows the table may hold beyond the cap.
MaxOver == 2

\* Bound: facts one auto-memory extraction yields.
MaxAuto == 2

\* SQLite's built-in lower(): ASCII letters only; any other character,
\* a non-ASCII capital included, is returned as it is.
SqlLowerChar(c) ==
    CASE c = "A" -> "a"
      [] c = "B" -> "b"
      [] OTHER -> c

SqlLower(t) == [i \in 1 .. Len(t) |-> SqlLowerChar(t[i])]

\* Facts as the model or a client writes them.  "E'" and "e'" are one
\* character each: the letter E with acute accent, capital (U+00C9) and
\* small (U+00E9).
FactInputs == {<<"a">>, <<"A">>, <<" ", "a", " ">>, <<"E'">>, <<"e'">>}

\* A text that no row holds so far and that equals none ignoring case.
Fresh == <<"*">>

\* Facts an extraction returns: strings with a non-blank trim, stored as
\* they are.
AutoFacts == {<<"a">>, <<"A">>}

NoText == <<>>

\* The contents a row can hold.
StoredTexts == {JsTrim(f) : f \in FactInputs} \cup AutoFacts

EmptyMemory == [c \in StoredTexts |-> 0]

RECURSIVE RowCount(_, _)
RowCount(mem, S) ==
    IF S = {} THEN 0
    ELSE LET c == CHOOSE x \in S : TRUE
         IN mem[c] + RowCount(mem, S \ {c})

\* SELECT COUNT(*) AS n FROM memory WHERE user_id = ?
CountRows(mem, others) == RowCount(mem, StoredTexts) + others

\* SELECT id FROM memory WHERE user_id = ? AND lower(content) = lower(?)
Dupe(mem, fact) ==
    /\ fact # Fresh
    /\ \E c \in StoredTexts : mem[c] > 0 /\ SqlLower(c) = SqlLower(fact)

\* INSERT INTO memory(user_id, content) VALUES (?, ?)
InsertRow(mem, c) == IF c = Fresh THEN mem ELSE [mem EXCEPT ![c] = @ + 1]
InsertOther(others, c) == IF c = Fresh THEN others + 1 ELSE others

\* The table can take one more row of content c within the bounds.
CanStore(mem, others, c) ==
    IF c = Fresh THEN others < MemoryCap + MaxOver ELSE mem[c] < MaxCopies

\* ------------------------------------------------------------------------
\* The tool registry: handleBuiltinTool (src/services/tools.js 106-198)
\* ------------------------------------------------------------------------

\* What JSON.parse of the model's argument string can give, by what the
\* tool's field access does with it:
\*   "null"      args is null: args.fact throws
\*   "nonobject" a number, string, boolean or array: the field is undefined
\*   "missing"   an object without the field, or with a falsy non-string
\*   "nonstring" the field is a truthy non-string: .trim is no function
\*   "string"    the field is the string `text`
ArgShapes == {"null", "nonobject", "missing", "nonstring"}

ArgsOver(F) ==
    {[shape |-> s, text |-> NoText] : s \in ArgShapes}
    \cup {[shape |-> "string", text |-> t] : t \in F \cup {<<>>, <<" ">>}}

NoArgs == [shape |-> "missing", text |-> NoText]

\* (args.field || '').trim(): whether the expression throws, and its value.
FieldRaises(args) == args.shape \in {"null", "nonstring"}
FieldTrimmed(args) == IF args.shape = "string" THEN JsTrim(args.text) ELSE NoText

\* Outcomes of the external search or image call.
ExternalOutcomes == {"ok", "empty", "http_error", "network_error"}

Raised == [raised |-> TRUE, text |-> "TypeError", insert |-> NoText, request |-> FALSE]
Returned(text) == [raised |-> FALSE, text |-> text, insert |-> NoText, request |-> FALSE]

\* The string returned after the external request (fetch, images.generate)
\* was issued.
Requested(text) == [raised |-> FALSE, text |-> text, insert |-> NoText, request |-> TRUE]

\* Variant: the search key is looked at after the query.
webSearchKeyAfterQuery(args, ctx, ext) ==
    IF FieldRaises(args) THEN Raised
    ELSE IF FieldTrimmed(args) = NoText THEN Returned("no_query")
    ELSE IF ~ctx.tavilyKey THEN Returned("search_not_configured")
    ELSE IF ext = "ok" THEN Requested("search_results")
    ELSE IF ext = "empty" THEN Requested("no_results")
    ELSE Requested("search_failed")

\* case 'web_search'
webSearch(args, ctx, ext) ==
    IF ~ctx.tavilyKey THEN Returned("search_not_configured")
    ELSE IF FieldRaises(args) THEN Raised
    ELSE IF FieldTrimmed(args) = NoText THEN Returned("no_query")
    ELSE IF ext = "ok" THEN Requested("search_results")
    ELSE IF ext = "empty" THEN Requested("no_results")
    ELSE Requested("search_failed")

\* handleBuiltinTool(name, args, context) with the table as it is and the
\* outcome of its external call: whether it raised, the kind of string it
\* returned, and the row it inserted (NoText: none).
handleBuiltinTool(name, args, ctx, ext, mem) ==
    LET v == FieldTrimmed(args)
    IN CASE name = "memory_save" ->
              IF FieldRaises(args) THEN Raised
              ELSE IF v = NoText THEN Returned("no_fact")
              ELSE IF Dupe(mem, v) THEN Returned("already")
              ELSE [raised |-> FALSE, text |-> "saved", insert |-> v,
                    request |-> FALSE]
         [] name = "memory_get" ->
              IF FieldRaises(args) THEN Raised
              ELSE Returned("memories")
         [] name = "web_search" ->
              webSearch(args, ctx, ext)
         [] name = "generate_image" ->
              IF FieldRaises(args) THEN Raised
              ELSE IF v = NoText THEN Returned("no_prompt")
              ELSE IF ~ctx.apiKey THEN Returned("image_needs_key")
              ELSE IF ext = "ok" THEN Requested("IMAGE_GENERATED:data_url")
              ELSE IF ext = "empty" THEN Requested("image_no_data")
              ELSE Requested("image_failed")
         [] OTHER -> Returned("unknown_tool")

\* ------------------------------------------------------------------------
\* One tool call of a round: the loop body of streamOpenAI (part_001 127-147)
\* around the built-in branch of toolExecutor (part_006 199-212)
\* ------------------------------------------------------------------------

IsSentinel(text) == text = "IMAGE_GENERATED:data_url"

\* Variant: the executor returns the registry's string as it is.
ExecutorReturnsRaw(text) == text

\* The string the executor returns for what the registry returned: the
\* sentinel is replaced by a success text.
ExecutorReturns(text) ==
    IF IsSentinel(text) THEN "Image generated successfully." ELSE text

\* Events the executor itself writes: sse({ type: 'image_generated', ... }).
ExecutorEvents(text) ==
    IF IsSentinel(text)
    THEN <<[type |-> "image_generated", payload |-> "data_url"]>>
    ELSE <<>>

\* resultText after the try/catch around the executor call.
LoopResultText(reg) ==
    IF reg.raised THEN "Error: raised" ELSE ExecutorReturns(reg.text)

\* Contexts of a call: whether a search key and a provider key are set.
Contexts(name) ==
    IF name = "web_search" THEN {[tavilyKey |-> k, apiKey |-> TRUE] : k \in BOOLEAN}
    ELSE IF name = "generate_image"
    THEN {[tavilyKey |-> FALSE, apiKey |-> k] : k \in BOOLEAN}
    ELSE {[tavilyKey |-> FALSE, apiKey |-> TRUE]}

\* The call gets as far as its external request.
CallsExternal(name, args, ctx) ==
    /\ ~FieldRaises(args)
    /\ FieldTrimmed(args) # NoText
    /\ \/ name = "web_search" /\ ctx.tavilyKey
       \/ name = "generate_image" /\ ctx.apiKey

ExternalFor(name, args, ctx) ==
    IF CallsExternal(name, args, ctx) THEN ExternalOutcomes ELSE {"ok"}

NoCall == [name |-> "none", args |-> NoArgs,
           ctx |-> [tavilyKey |-> FALSE, apiKey |-> TRUE], ext |-> "ok"]
NoRegistry == [raised |-> FALSE, text |-> "none", insert |-> NoText,
               request |-> FALSE]

\* onToolCall; toolExecutor -> handleBuiltinTool; onToolResult, for a
\* built-in name of Names and a field value over F.
ToolCallOn(F, Names) ==
    \E name \in Names :
    \E args \in ArgsOver(IF name = "memory_save" THEN F ELSE {<<"q">>}) :
    \E ctx \in Contexts(name) :
    \E ext \in ExternalFor(name, args, ctx) :
      LET reg == handleBuiltinTool(name, args, ctx, ext, memory)
      IN /\ reg.insert # NoText => CanStore(memory, memOthers, reg.insert)
         /\ tlCall' = [name |-> name, args |-> args, ctx |-> ctx, ext |-> ext]
         /\ tlRegistry' = reg
         /\ tlTurn' = LoopResultText(reg)
         /\ tlEvents' =
              <<[type |-> "tool_call", payload |-> name]>>
              \o (IF reg.raised THEN <<>> ELSE ExecutorEvents(reg.text))
              \o <<[type |-> "tool_result", payload |-> LoopResultText(reg)]>>
         /\ memory' = IF reg.insert = NoText THEN memory
                      ELSE InsertRow(memory, reg.insert)
         /\ memOthers' = IF reg.insert = NoText THEN memOthers
                         ELSE InsertOther(memOthers, reg.insert)
         /\ memStatus' = 0
         /\ UNCHANGED onlySaves

ToolCall ==
    /\ ToolCallOn(FactInputs, BuiltinNames)
    /\ UNCHANGED <<chatVars, gwVars, discVars, storeVars>>

\* ------------------------------------------------------------------------
\* The memory endpoint (part_006 1-59) and auto-memory (part_006 353-362)
\* ------------------------------------------------------------------------

\* req.body.content: absent or blank, longer than 1000 characters, a truthy
\* non-string (content.trim is no function), or a string.
ContentShapes == {"missing", "toolong", "nonstring", "string"}

toolFrame == <<tlCall, tlRegistry, tlTurn, tlEvents>>

ResetCall ==
    /\ tlCall' = NoCall
    /\ tlRegistry' = NoRegistry
    /\ tlTurn' = "none"
    /\ tlEvents' = <<>>

\* if (count >= 500) return res.status(400)
AtCap(mem, others) == CountRows(mem, others) >= MemoryCap

\* POST /api/memory with a content over F.
MemoryPostOn(F) ==
    \E shape \in ContentShapes, t \in F :
      /\ ResetCall
      /\ IF shape \in {"missing", "toolong"}
         THEN /\ memStatus' = 400
              /\ UNCHANGED <<memory, memOthers, onlySaves>>
         ELSE IF shape = "nonstring"
         THEN /\ memStatus' = 500
              /\ UNCHANGED <<memory, memOthers, onlySaves>>
         ELSE IF AtCap(memory, memOthers)
         THEN /\ memStatus' = 400
              /\ UNCHANGED <<memory, memOthers, onlySaves>>
         ELSE /\ CanStore(memory, memOthers, JsTrim(t))
              /\ memStatus' = 200
              /\ memory' = InsertRow(memory, JsTrim(t))
              /\ memOthers' = InsertOther(memOthers, JsTrim(t))
              /\ onlySaves' = FALSE

MemoryPost ==
    /\ MemoryPostOn(FactInputs)
    /\ UNCHANGED <<chatVars, gwVars, discVars, storeVars>>

\* PATCH /api/memory/:id: the content of one row is replaced.
MemoryPatch ==
    /\ \E from \in StoredTexts, t \in FactInputs :
         /\ memory[from] > 0
         /\ JsTrim(t) # from
         /\ memory[JsTrim(t)] < MaxCopies
         /\ memory' = [memory EXCEPT ![from] = @ - 1, ![JsTrim(t)] = @ + 1]
    /\ memStatus' = 200
    /\ onlySaves' = FALSE
    /\ ResetCall
    /\ UNCHANGED memOthers
    /\ UNCHANGED <<chatVars, gwVars, discVars, storeVars>>

\* DELETE /api/memory/:id of a row of the user.
MemoryDelete ==
    /\ \/ \E c \in StoredTexts :
            /\ memory[c] > 0
            /\ memory' = [memory EXCEPT ![c] = @ - 1]
            /\ UNCHANGED memOthers
       \/ /\ memOthers > 0
          /\ memOthers' = memOthers - 1
          /\ UNCHANGED memory
    /\ memStatus' = 200
    /\ onlySaves' = FALSE
    /\ ResetCall
    /\ UNCHANGED <<chatVars, gwVars, discVars, storeVars>>

\* DELETE /api/memory
MemoryClear ==
    /\ memory' = EmptyMemory
    /\ memOthers' = 0
    /\ memStatus' = 200
    /\ onlySaves' = FALSE
    /\ ResetCall
    /\ UNCHANGED <<chatVars, gwVars, discVars, storeVars>>

RECURSIVE InsertAll(_, _)
InsertAll(mem, facts) ==
    IF facts = <<>> THEN mem
    ELSE InsertAll(InsertRow(mem, Head(facts)), Tail(facts))

RECURSIVE InsertAllOthers(_, _)
InsertAllOthers(others, facts) ==
    IF facts = <<>> THEN others
    ELSE InsertAllOthers(InsertOther(others, Head(facts)), Tail(facts))

FactLists(F) == UNION {[1 .. n -> F] : n \in 1 .. MaxAuto}

\* extractMemories(...).then(newFacts => ...): every fact of the list is
\* inserted as it is.
AutoMemoryOn(F) ==
    \E facts \in FactLists(F) :
      /\ \A c \in F :
           LET n == Cardinality({i \in DOMAIN facts : facts[i] = c})
           IN IF c = Fresh THEN memOthers + n <= MemoryCap + MaxOver
              ELSE memory[c] + n <= MaxCopies
      /\ memory' = InsertAll(memory, facts)
      /\ memOthers' = InsertAllOthers(memOthers, facts)
      /\ memStatus' = 0
      /\ onlySaves' = FALSE
      /\ ResetCall

AutoMemory ==
    /\ AutoMemoryOn(AutoFacts)
    /\ UNCHANGED <<chatVars, gwVars, discVars, storeVars>>

\* The same paths with contents that are new to the table.
FreshToolCall ==
    /\ ToolCallOn({Fresh}, {"memory_save"})
    /\ UNCHANGED <<chatVars, gwVars, discVars, storeVars>>

FreshMemoryPost ==
    /\ MemoryPostOn({Fresh})
    /\ UNCHANGED <<chatVars, gwVars, discVars, storeVars>>

FreshAutoMemory ==
    /\ AutoMemoryOn({Fresh})
    /\ UNCHANGED <<chatVars, gwVars, discVars, storeVars>>

ToolInit ==
    /\ memory = EmptyMemory
    /\ memOthers = 0
    /\ onlySaves = TRUE
    /\ tlCall = NoCall
    /\ tlRegistry = NoRegistry
    /\ tlTurn = "none"
    /\ tlEvents = <<>>
    /\ memStatus = 0

\* The registry and the memory paths over a few contents.
ToolsNext ==
    \/ ToolCall
    \/ MemoryPost
    \/ MemoryPatch
    \/ MemoryDelete
    \/ MemoryClear
    \/ AutoMemory

\* The memory paths with contents that are always new.
MemoryCapNext ==
    \/ FreshToolCall
    \/ FreshMemoryPost
    \/ FreshAutoMemory
    \/ MemoryDelete
    \/ MemoryClear

\* ------------------------------------------------------------------------
\* Properties of the registry and of the memory table
\* ------------------------------------------------------------------------

\* Lower case of every letter, the accented ones included.
FoldChar(c) ==
    CASE c = "A" -> "a"
      [] c = "B" -> "b"
      [] c = "E'" -> "e'"
      [] OTHER -> c

FoldCase(t) == [i \in 1 .. Len(t) |-> FoldChar(t[i])]

\* Rows whose content equals t ignoring case.
RowsLike(t) ==
    RowCount(memory, {c \in StoredTexts : FoldCase(c) = FoldCase(t)})

\* Rows whose content equals t up to the case of ASCII letters.
RowsLikeAscii(t) ==
    RowCount(memory, {c \in StoredTexts : SqlLower(c) = SqlLower(t)})

SavedFact ==
    /\ tlCall.name = "memory_save"
    /\ tlCall.args.shape = "string"
    /\ JsTrim(tlCall.args.text) # NoText

\* C13: no two memory facts of the user are equal ignoring case, whichever
\* path inserted them.
C13_NoDuplicateFacts ==
    \A c \in StoredTexts : RowsLike(c) <= 1

\* C14: while memory_save is the only writer, calls whose trimmed facts are
\* equal ignoring case leave exactly one row, and a call answers that the
\* fact was saved or that it was already remembered.
C14_MemorySaveIdempotent ==
    onlySaves =>
      /\ \A c \in StoredTexts : RowsLike(c) <= 1
      /\ SavedFact =>
           /\ RowsLike(JsTrim(tlCall.args.text)) = 1
           /\ tlRegistry.text \in {"saved", "already"}

\* memory_save is idempotent up to the case of ASCII letters.
MemorySaveIdempotentAscii ==
    onlySaves =>
      /\ \A c \in StoredTexts : RowsLikeAscii(c) <= 1
      /\ SavedFact =>
           /\ RowsLikeAscii(JsTrim(tlCall.args.text)) = 1
           /\ tlRegistry.text \in {"saved", "already"}

\* C15: the user never has more rows than the cap, whichever path inserts.
C15_CapNeverExceeded ==
    CountRows(memory, memOthers) <= MemoryCap

\* C16: handleBuiltinTool returns a string and never raises, whatever the
\* parsed arguments and the outcome of the external call.
C16_RegistryNeverRaises ==
    tlCall.name \in BuiltinNames => ~tlRegistry.raised

\* C25: web_search called without a search key returns the string saying
\* that web search is not configured and issues no request, whatever its
\* arguments.
C25_SearchNotConfigured ==
    (tlCall.name = "web_search" /\ ~tlCall.ctx.tavilyKey) =>
      /\ ~tlRegistry.raised
      /\ tlRegistry.text = "search_not_configured"
      /\ ~tlRegistry.request
      /\ tlTurn = "search_not_configured"

\* web_search without a key and with null arguments, whose field access
\* would throw.
C25_Witness ==
    /\ tlCall.name = "web_search"
    /\ ~tlCall.ctx.tavilyKey
    /\ tlCall.args.shape = "null"
    /\ tlRegistry.text = "search_not_configured"

MaxServerRows == 1      \* rows of the user in mcp_servers
MaxServerIds == 2       \* ids handed out by AUTOINCREMENT

Worlds == {1, 2}

\* No row for the key in the settings table.
Absent == "absent"

SecretKeys == {"openai_api_key", "tavily_api_key"}

\* ALLOWED_KEYS, of which one plain key and the two secrets are modelled.
ALLOWED_KEYS == {"model"} \cup SecretKeys

\* DEFAULTS: a default for model, none for the secrets.
DEFAULTS == [k \in ALLOWED_KEYS |-> IF k = "model" THEN "gpt-5-mini" ELSE Absent]

\* Values a secret is stored with: String(v ?? '') of the request's value.
\* " " is a blank string, "k1" and "k2" are keys.
SecretValues == {" ", "k1", "k2"}

\* !!(v && v.trim())
IsSetValue(v) == v \notin {Absent, "", " "}

\* { ...DEFAULTS, ...stored }
Merged(stored) ==
    [k \in ALLOWED_KEYS |-> IF stored[k] # Absent THEN stored[k] ELSE DEFAULTS[k]]

\* Variant: only the provider key is deleted from the copy.
maskSettingsKeepsSearchKey(merged) ==
    [fields |-> [k \in DOMAIN merged \ {"openai_api_key"} |-> merged[k]],
     openai_api_key_set |-> IsSetValue(merged["openai_api_key"]),
     tavily_api_key_set |-> IsSetValue(merged["tavily_api_key"])]

\* maskSettings(merged): the copy without the two keys, and the two flags.
maskSettings(merged) ==
    [fields |-> [k \in DOMAIN merged \ SecretKeys |-> merged[k]],
     openai_api_key_set |-> IsSetValue(merged["openai_api_key"]),
     tavily_api_key_set |-> IsSetValue(merged["tavily_api_key"])]

\* MAX_LENGTHS: an over-long value of a bounded key is skipped.
TooLong(k, v) == k = "model" /\ v = "toolong"

\* One entry of the body of PATCH /api/settings applied to the stored rows.
Patched(stored, k, v) ==
    IF k \notin ALLOWED_KEYS \/ TooLong(k, v) THEN stored
    ELSE [stored EXCEPT ![k] = v]

\* Entries sent to the two states: the same key, the same value unless the
\* key is a secret, and then two values that are both set or both blank.
PatchEntries ==
    {<<k, v, v>> : k \in {"model", "other"}, v \in {"gpt-5", "toolong"}}
    \cup {e \in SecretKeys \X SecretValues \X SecretValues :
            IsSetValue(e[2]) = IsSetValue(e[3])}

Reply(code, body) == [status |-> code, body |-> body]

NoReply == Reply(0, <<>>)

NoSettings == [k \in ALLOWED_KEYS |-> Absent]

StoreInit ==
    world = [w \in Worlds |->
               [settings |-> NoSettings, servers |-> <<>>, nextId |-> 1,
                resp |-> NoReply]]

\* GET /api/settings
SettingsGet ==
    /\ world' = [w \in Worlds |->
                   [world[w] EXCEPT
                      !.resp = Reply(200, <<maskSettings(Merged(world[w].settings))>>)]]
    /\ UNCHANGED <<chatVars, gwVars, discVars, toolVars, ownVars, replyVars, detailVars>>

\* PATCH /api/settings with a body that is no object, or with one entry.
SettingsPatch ==
    /\ \/ world' = [w \in Worlds |-> [world[w] EXCEPT !.resp = Reply(400, <<>>)]]
       \/ \E e \in PatchEntries :
            world' = [w \in Worlds |->
                        LET stored == Patched(world[w].settings, e[1], e[w + 1])
                        IN [world[w] EXCEPT
                              !.settings = stored,
                              !.resp = Reply(200, <<maskSettings(Merged(stored))>>)]]
    /\ UNCHANGED <<chatVars, gwVars, discVars, toolVars, ownVars, replyVars, detailVars>>

\* SELECT id, name, url, enabled, created_at (created_at is the same in
\* both states and left out).
PublicRow(row) ==
    [id |-> row.id, name |-> row.name, url |-> row.url, enabled |-> row.enabled]

RECURSIVE PublicRows(_)
PublicRows(rows) ==
    IF rows = <<>> THEN <<>>
    ELSE <<PublicRow(Head(rows))>> \o PublicRows(Tail(rows))

\* Index of the user's row with the id, 0 if there is none.
RowIndex(rows, id) ==
    IF \E i \in DOMAIN rows : rows[i].id = id
    THEN CHOOSE i \in DOMAIN rows : rows[i].id = id
    ELSE 0

RECURSIVE WithoutRow(_, _)
WithoutRow(rows, id) ==
    IF rows = <<>> THEN <<>>
    ELSE IF Head(rows).id = id THEN WithoutRow(Tail(rows), id)
    ELSE <<Head(rows)>> \o WithoutRow(Tail(rows), id)

\* GET /api/mcp
McpList ==
    /\ world' = [w \in Worlds |->
                   [world[w] EXCEPT !.resp = Reply(200, PublicRows(world[w].servers))]]
    /\ UNCHANGED <<chatVars, gwVars, discVars, toolVars, ownVars, replyVars, detailVars>>

\* POST /api/mcp: a blank name or url, or a url that does not parse, is
\* answered 400; else the row is inserted with the column defaults.
McpPost ==
    /\ \E name \in {"srv", " "}, url \in {"https://srv", "nourl"} :
         IF name = " " \/ url = "nourl"
         THEN world' = [w \in Worlds |-> [world[w] EXCEPT !.resp = Reply(400, <<>>)]]
         ELSE /\ \A w \in Worlds :
                   /\ Len(world[w].servers) < MaxServerRows
                   /\ world[w].nextId <= MaxServerIds
              /\ world' = [w \in Worlds |->
                   LET row == [id |-> world[w].nextId, name |-> name, url |-> url,
                               enabled |-> 1, auth_type |-> "none",
                               auth_data |-> "null"]
                   IN [world[w] EXCEPT
                         !.servers = Append(@, row),
                         !.nextId = @ + 1,
                         !.resp = Reply(201, <<PublicRow(row)>>)]]
    /\ UNCHANGED <<chatVars, gwVars, discVars, toolVars, ownVars, replyVars, detailVars>>

\* The auth columns (db/database.js 94-95) are read by buildAuth and written
\* by no route of routes/mcp.js: a token is stored with a row, with a value
\* of its own in each state.
StoreAuth ==
    /\ \E id \in 1 .. MaxServerIds, t \in {"t1", "t2"} :
         /\ \A w \in Worlds : RowIndex(world[w].servers, id) # 0
         /\ world' = [w \in Worlds |->
              LET i == RowIndex(world[w].servers, id)
              IN [world[w] EXCEPT
                    !.servers[i].auth_type = "token",
                    !.servers[i].auth_data = IF w = 1 THEN "t1" ELSE t,
                    !.resp = NoReply]]
    /\ UNCHANGED <<chatVars, gwVars, discVars, toolVars, ownVars, replyVars, detailVars>>

\* PATCH /api/mcp/:id with enabled, or with nothing to update.
McpPatch ==
    /\ \E id \in 1 .. MaxServerIds, upd \in {"none", "on", "off"} :
         world' = [w \in Worlds |->
           LET i == RowIndex(world[w].servers, id)
           IN IF i = 0 THEN [world[w] EXCEPT !.resp = Reply(404, <<>>)]
              ELSE IF upd = "none" THEN [world[w] EXCEPT !.resp = Reply(400, <<>>)]
              ELSE LET row == [world[w].servers[i] EXCEPT
                                 !.enabled = IF upd = "on" THEN 1 ELSE 0]
                   IN [world[w] EXCEPT
                         !.servers[i] = row,
                         !.resp = Reply(200, <<PublicRow(row)>>)]]
    /\ UNCHANGED <<chatVars, gwVars, discVars, toolVars, ownVars, replyVars, detailVars>>

\* DELETE /api/mcp/:id
McpDelete ==
    /\ \E id \in 1 .. MaxServerIds :
         world' = [w \in Worlds |->
           IF RowIndex(world[w].servers, id) = 0
           THEN [world[w] EXCEPT !.resp = Reply(404, <<>>)]
           ELSE [world[w] EXCEPT
                   !.servers = WithoutRow(@, id),
                   !.resp = Reply(200, <<>>)]]
    /\ UNCHANGED <<chatVars, gwVars, discVars, toolVars, ownVars, replyVars, detailVars>>

\* What listTools(server.url) sends as authorization: the route passes no
\* auth argument.
TestAuthSent(row) == "none"

\* GET /api/mcp/:id/tools: the remote server answers by what it is sent.
McpTools ==
    /\ \E id \in 1 .. MaxServerIds :
       \E remote \in [{"none", "t1", "t2"} -> {200, 502}] :
         world' = [w \in Worlds |->
           LET i == RowIndex(world[w].servers, id)
           IN IF i = 0 THEN [world[w] EXCEPT !.resp = Reply(404, <<>>)]
              ELSE [world[w] EXCEPT
                      !.resp = Reply(remote[TestAuthSent(world[w].servers[i])], <<>>)]]
    /\ UNCHANGED <<chatVars, gwVars, discVars, toolVars, ownVars, replyVars, detailVars>>

StoreNext ==
    \/ SettingsGet
    \/ SettingsPatch
    \/ McpList
    \/ McpPost
    \/ StoreAuth
    \/ McpPatch
    \/ McpDelete
    \/ McpTools

\* A field holding a secret.
IsSecretField(k) == k \in SecretKeys \cup {"auth_data"}

\* C26: the two states get the same response to every request of the
\* settings and remote-server endpoints, and no response carries a secret
\* field: the settings body has the two flags and the remaining keys, a
\* server row has no auth column.
C26_SecretsNotReturned ==
    /\ world[1].resp = world[2].resp
    /\ \A w \in Worlds : \A i \in DOMAIN world[w].resp.body :
         LET item == world[w].resp.body[i]
         IN /\ \A k \in DOMAIN item : ~IsSecretField(k)
            /\ "fields" \in DOMAIN item =>
                 /\ \A k \in DOMAIN item.fields : ~IsSecretField(k)
                 /\ item.openai_api_key_set \in BOOLEAN
                 /\ item.tavily_api_key_set \in BOOLEAN

\* Two provider keys that differ, both reported as set by the settings
\* response, and a server row whose tokens differ.
C26_Witness ==
    /\ world[1].settings["openai_api_key"] = "k1"
    /\ world[2].settings["openai_api_key"] = "k2"
    /\ world[1].resp.status = 200
    /\ Len(world[1].resp.body) = 1
    /\ "fields" \in DOMAIN world[1].resp.body[1]
    /\ world[1].resp.body[1].openai_api_key_set
    /\ \E i \in DOMAIN world[2].servers : world[2].servers[i].auth_data = "t2"

\* ------------------------------------------------------------------------
\* The tables, with the rows of two users, under the requests of one of them:
\* chats (part_004), chat streaming (part_006 149-362), memory (part_006
\* 1-59), settings (part_005) and remote servers (routes/mcp.js)
\* ------------------------------------------------------------------------

MaxRowId == 4           \* ids handed out to new rows
MaxClock == 2           \* seconds that pass

\* The authenticated user of every request (req.session.userId) and the
\* other user.
Me == "A"
Other == "B"

\* Rows of the five tables, in one shape: user is user_id ("" where the
\* table has none), conv is conversation_id, key is the role of a message or
\* the key of a setting, val the title, content, value or enabled flag, at
\* is created_at.
Conv(id, user, title) ==
    [tbl |-> "conversations", id |-> id, user |-> user, conv |-> 0, key |-> "",
     val |-> title, at |-> 0]
Msg(id, conv, role, at) ==
    [tbl |-> "messages", id |-> id, user |-> "", conv |-> conv, key |-> role,
     val |-> "m", at |-> at]
Fact(id, user, content) ==
    [tbl |-> "memory", id |-> id, user |-> user, conv |-> 0, key |-> "",
     val |-> content, at |-> 0]
Setting(user, k, v) ==
    [tbl |-> "settings", id |-> 0, user |-> user, conv |-> 0, key |-> k,
     val |-> v, at |-> 0]
Server(id, user, enabled) ==
    [tbl |-> "mcp_servers", id |-> id, user |-> user, conv |-> 0, key |-> "",
     val |-> enabled, at |-> 0]

\* What the other user stored before.
OtherRows ==
    {Conv(1, Other, "t"), Msg(1, 1, "user", 0), Fact(1, Other, "f"),
     Setting(Other, "model", "gpt-5"), Server(1, Other, "1")}

OwnInit ==
    /\ db = OtherRows
    /\ reply = {}
    /\ nextRow = 2
    /\ now = 0
    /\ streamConv = 0

Table(t) == {r \in db : r.tbl = t}

\* Variant: ... WHERE id = ?
FindOwnedAnyUser(t, id, user) == {r \in Table(t) : r.id = id}

\* ... WHERE id = ? AND user_id = ?
FindOwned(t, id, user) == {r \in Table(t) : r.id = id /\ r.user = user}

\* ... WHERE id = ?, after the row was found with the user
FindById(t, id) == {r \in Table(t) : r.id = id}

\* ... WHERE user_id = ?
RowsOfUser(t, user) == {r \in Table(t) : r.user = user}

\* ... FROM messages WHERE conversation_id = ?
MessagesOf(conv) == {r \in Table("messages") : r.conv = conv}

\* Ids a request can name: the ids in use, and one that is not.
RowIds == {r.id : r \in {x \in db : x.id > 0}} \cup {nextRow}

ownFrame == <<chatVars, gwVars, discVars, toolVars, world, replyVars, detailVars>>

\* GET /api/chats: the user's conversations, each with its last message.
ChatsList ==
    /\ reply' = RowsOfUser("conversations", Me)
                \cup {m \in Table("messages") :
                        /\ \E c \in RowsOfUser("conversations", Me) : m.conv = c.id
                        /\ \A o \in MessagesOf(m.conv) : o.at <= m.at}
    /\ UNCHANGED <<db, nextRow, now, streamConv>>
    /\ UNCHANGED ownFrame

\* POST /api/chats
ChatsCreate ==
    /\ nextRow <= MaxRowId
    /\ db' = db \cup {Conv(nextRow, Me, "New Chat")}
    /\ reply' = {Conv(nextRow, Me, "New Chat")}
    /\ nextRow' = nextRow + 1
    /\ UNCHANGED <<now, streamConv>>
    /\ UNCHANGED ownFrame

\* GET /api/chats/:id and GET /api/chats/:id/messages
ChatsGet ==
    /\ \E id \in RowIds, withConv \in BOOLEAN :
         LET conv == FindOwned("conversations", id, Me)
         IN reply' = IF conv = {} THEN {}
                      ELSE (IF withConv THEN conv ELSE {}) \cup MessagesOf(id)
    /\ UNCHANGED <<db, nextRow, now, streamConv>>
    /\ UNCHANGED ownFrame

\* PATCH /api/chats/:id
ChatsRename ==
    /\ \E id \in RowIds :
         LET conv == FindOwned("conversations", id, Me)
         IN db' = (db \ conv) \cup {[c EXCEPT !.val = "t"] : c \in conv}
    /\ reply' = {}
    /\ UNCHANGED <<nextRow, now, streamConv>>
    /\ UNCHANGED ownFrame

\* DELETE /api/chats/:id; the messages go by ON DELETE CASCADE.
ChatsDelete ==
    /\ \E id \in RowIds :
         LET conv == FindOwned("conversations", id, Me)
         IN db' = db \ (conv \cup (IF conv = {} THEN {} ELSE MessagesOf(id)))
    /\ reply' = {}
    /\ UNCHANGED <<nextRow, now, streamConv>>
    /\ UNCHANGED ownFrame

\* The rows DELETE FROM messages WHERE conversation_id = ? AND
\* created_at >= ? removes.
EditDeletes(conv, at) == {m \in MessagesOf(conv) : m.at >= at}

\* PATCH /api/chats/:id/messages/:msgId, for a conversation and a user
\* message found and a content given: whether it goes as far as the DELETE.
EditFinds(id, msgId) ==
    /\ FindOwned("conversations", id, Me) # {}
    /\ \E m \in MessagesOf(id) : m.id = msgId /\ m.key = "user"

ChatsEditOn(id, msgId) ==
    /\ IF EditFinds(id, msgId)
       THEN LET msg == CHOOSE m \in MessagesOf(id) : m.id = msgId
            IN /\ db' = db \ EditDeletes(id, msg.at)
               /\ reply' = {}
       ELSE /\ db' = db
            /\ reply' = {}
    /\ UNCHANGED <<nextRow, now, streamConv>>
    /\ UNCHANGED ownFrame

ChatsEdit == \E id \in RowIds, msgId \in RowIds : ChatsEditOn(id, msgId)

\* POST /api/ai/chat up to the stream: the conversation is looked up, or
\* created when no id is given (id 0); the history is read, the user
\* message is stored.
ChatSend ==
    /\ streamConv = 0
    /\ \E id \in {0} \cup RowIds :
         IF id = 0
         THEN /\ nextRow + 1 <= MaxRowId
              /\ db' = db \cup {Conv(nextRow, Me, "New Chat"),
                                Msg(nextRow + 1, nextRow, "user", now)}
              /\ reply' = {}
              /\ nextRow' = nextRow + 2
              /\ streamConv' = nextRow
         ELSE IF FindOwned("conversations", id, Me) = {}
         THEN /\ reply' = {}
              /\ UNCHANGED <<db, nextRow, streamConv>>
         ELSE /\ nextRow <= MaxRowId
              /\ db' = db \cup {Msg(nextRow, id, "user", now)}
              /\ reply' = MessagesOf(id)
              /\ nextRow' = nextRow + 1
              /\ streamConv' = id
    /\ UNCHANGED now
    /\ UNCHANGED ownFrame

\* The stream ends.  onDone stores the assistant message with conv.id (the
\* insert fails if the conversation is gone); autoTitle may rename the row
\* with that id; auto-memory may insert a fact for userId.  onError stores
\* nothing.
ChatDone ==
    /\ streamConv # 0
    /\ \E done \in BOOLEAN, titled \in BOOLEAN, fact \in BOOLEAN :
         LET there == \E c \in Table("conversations") : c.id = streamConv
             stored == done /\ there
             n1 == IF stored THEN nextRow + 1 ELSE nextRow
             n2 == IF stored /\ fact THEN n1 + 1 ELSE n1
             conv == {c \in Table("conversations") : c.id = streamConv}
             renamed == IF titled
                        THEN (db \ conv) \cup {[c EXCEPT !.val = "t"] : c \in conv}
                        ELSE db
         IN /\ n2 <= MaxRowId + 1
            /\ db' = renamed
                     \cup (IF stored
                           THEN {Msg(nextRow, streamConv, "assistant", now)} ELSE {})
                     \cup (IF stored /\ fact THEN {Fact(n1, Me, "f")} ELSE {})
            /\ nextRow' = n2
    /\ reply' = {}
    /\ streamConv' = 0
    /\ UNCHANGED now
    /\ UNCHANGED ownFrame

\* A second passes.
Tick ==
    /\ now < MaxClock
    /\ now' = now + 1
    /\ UNCHANGED <<db, reply, nextRow, streamConv>>
    /\ UNCHANGED ownFrame

\* GET /api/memory, and memory_get of the registry with context.userId
MemoryRows ==
    /\ reply' = RowsOfUser("memory", Me)
    /\ UNCHANGED <<db, nextRow, now, streamConv>>
    /\ UNCHANGED ownFrame

\* POST /api/memory, and memory_save of the registry with context.userId
MemoryInsert ==
    /\ nextRow <= MaxRowId
    /\ db' = db \cup {Fact(nextRow, Me, "f")}
    /\ reply' = {Fact(nextRow, Me, "f")}
    /\ nextRow' = nextRow + 1
    /\ UNCHANGED <<now, streamConv>>
    /\ UNCHANGED ownFrame

\* PATCH /api/memory/:id
MemoryUpdate ==
    /\ \E id \in RowIds :
         LET row == FindOwned("memory", id, Me)
         IN db' = (db \ row) \cup {[r EXCEPT !.val = "g"] : r \in row}
    /\ reply' = {}
    /\ UNCHANGED <<nextRow, now, streamConv>>
    /\ UNCHANGED ownFrame

\* DELETE /api/memory/:id and DELETE /api/memory
MemoryRemove ==
    /\ \/ \E id \in RowIds : db' = db \ FindOwned("memory", id, Me)
       \/ db' = db \ RowsOfUser("memory", Me)
    /\ reply' = {}
    /\ UNCHANGED <<nextRow, now, streamConv>>
    /\ UNCHANGED ownFrame

\* getUserSettings(userId): GET /api/settings, the chat request
getUserSettings ==
    /\ reply' = RowsOfUser("settings", Me)
    /\ UNCHANGED <<db, nextRow, now, streamConv>>
    /\ UNCHANGED ownFrame

\* setSetting(userId, key, value): PATCH /api/settings
setSetting ==
    /\ db' = {r \in db : ~(r.tbl = "settings" /\ r.user = Me /\ r.key = "model")}
             \cup {Setting(Me, "model", "gpt-5-mini")}
    /\ reply' = RowsOfUser("settings", Me)'
    /\ UNCHANGED <<nextRow, now, streamConv>>
    /\ UNCHANGED ownFrame

\* GET /api/mcp, and getUserMCPServers(userId) of the chat request
ServersList ==
    /\ reply' = RowsOfUser("mcp_servers", Me)
    /\ UNCHANGED <<db, nextRow, now, streamConv>>
    /\ UNCHANGED ownFrame

\* POST /api/mcp
ServersInsert ==
    /\ nextRow <= MaxRowId
    /\ db' = db \cup {Server(nextRow, Me, "1")}
    /\ reply' = {Server(nextRow, Me, "1")}
    /\ nextRow' = nextRow + 1
    /\ UNCHANGED <<now, streamConv>>
    /\ UNCHANGED ownFrame

\* PATCH /api/mcp/:id: the row is looked up with the user, then updated and
\* read again by its id.
ServersUpdate ==
    /\ \E id \in RowIds :
         LET row == FindOwned("mcp_servers", id, Me)
             upd == IF row = {} THEN {}
                    ELSE {[r EXCEPT !.val = "0"] : r \in FindById("mcp_servers", id)}
         IN /\ db' = IF row = {} THEN db
                     ELSE (db \ FindById("mcp_servers", id)) \cup upd
            /\ reply' = upd
    /\ UNCHANGED <<nextRow, now, streamConv>>
    /\ UNCHANGED ownFrame

\* DELETE /api/mcp/:id and GET /api/mcp/:id/tools: the same lookup, then
\* the delete by id, or the connection test of the row's url.
ServersRemove ==
    /\ \E id \in RowIds, test \in BOOLEAN :
         LET row == FindOwned("mcp_servers", id, Me)
         IN /\ db' = IF row = {} \/ test THEN db
                     ELSE db \ FindById("mcp_servers", id)
            /\ reply' = {}
    /\ UNCHANGED <<nextRow, now, streamConv>>
    /\ UNCHANGED ownFrame

\* Every request of the user.
OwnershipNext ==
    \/ ChatsList
    \/ ChatsCreate
    \/ ChatsGet
    \/ ChatsRename
    \/ ChatsDelete
    \/ ChatsEdit
    \/ ChatSend
    \/ ChatDone
    \/ MemoryRows
    \/ MemoryInsert
    \/ MemoryUpdate
    \/ MemoryRemove
    \/ getUserSettings
    \/ setSetting
    \/ ServersList
    \/ ServersInsert
    \/ ServersUpdate
    \/ ServersRemove

\* Chat requests and edits while time passes.
EditNext ==
    \/ ChatSend
    \/ ChatDone
    \/ Tick
    \/ ChatsEdit

\* C27: the rows of the other user are the ones that user stored, whatever
\* the authenticated user requests, and no response carries one of them.
C27_OwnRowsOnly ==
    /\ {r \in db : r.user = Other} = {r \in OtherRows : r.user = Other}
    /\ {m \in Table("messages") :
          \E c \in Table("conversations") : c.id = m.conv /\ c.user = Other}
       = {m \in OtherRows : m.tbl = "messages"}
    /\ reply \cap OtherRows = {}
    /\ \A r \in reply : r.user # Other

\* The user holds conversations, messages, settings and servers, and was
\* just answered with rows.
C27_Witness ==
    /\ \A t \in {"conversations", "messages", "settings", "mcp_servers"} :
         \E r \in Table(t) : r \notin OtherRows
    /\ reply # {}

\* C28: the edit removes the edited message and the messages of the
\* conversation inserted after it (those with a greater id), and nothing
\* else.
C28_EditDeletesFromMessage ==
    [][\A id \in RowIds, msgId \in RowIds :
         (EditFinds(id, msgId) /\ ChatsEditOn(id, msgId)) =>
           db' = db \ {m \in MessagesOf(id) : m.id >= msgId}]_vars

\* The edit is exact when no message inserted before the edited one carries
\* its creation second.
EditExactAcrossSeconds ==
    [][\A id \in RowIds, msgId \in RowIds :
         (/\ EditFinds(id, msgId)
          /\ ChatsEditOn(id, msgId)
          /\ \A m, e \in MessagesOf(id) :
                (e.id = msgId /\ m.id < msgId) => m.at < e.at) =>
           db' = db \ {m \in MessagesOf(id) : m.id >= msgId}]_vars

\* ------------------------------------------------------------------------
\* mcpRequest reading the body of a 2xx reply (tools.js 295-340)
\* ------------------------------------------------------------------------

MaxLines == 2           \* data lines of an SSE body

\* A parsed JSON value as mcpRequest looks at it: null, or an object whose
\* error field is absent, null or an object, and whose result field is
\* absent, null or a payload.
JsonObjects ==
    [kind : {"object"}, error : {"absent", "null", "object"},
     result : {"absent", "null", "r1", "r2"}]

JsonNull == [kind |-> "null", error |-> "absent", result |-> "absent"]

\* A data line that JSON.parse rejects.
Garbage == [kind |-> "garbage", error |-> "absent", result |-> "absent"]

RECURSIVE SeqsUpTo(_, _)
SeqsUpTo(S, n) ==
    IF n = 0 THEN {<<>>}
    ELSE SeqsUpTo(S, n - 1)
         \cup {Append(q, x) : q \in {p \in SeqsUpTo(S, n - 1) : Len(p) = n - 1}, x \in S}

\* Bodies by content type: one JSON value, or the data lines of an event
\* stream up to its close.
Bodies ==
    {[transport |-> "json", lines |-> <<j>>] : j \in JsonObjects \cup {JsonNull}}
    \cup {[transport |-> "sse", lines |-> ls] :
            ls \in SeqsUpTo(JsonObjects \cup {JsonNull, Garbage}, MaxLines)}

NoBody == [transport |-> "none", lines |-> <<>>]

Failure(msg) == [returned |-> FALSE, value |-> msg]
Result(v) == [returned |-> TRUE, value |-> v]

\* if (json.error) throw ...: null.error is a TypeError.
ErrorIsTruthy(j) == j.error = "object"

\* Variant: a reply without a result is an error.
jsonOutcomeResultRequired(j) ==
    IF j.kind = "null" THEN Failure("TypeError")
    ELSE IF ErrorIsTruthy(j) THEN Failure("MCP error")
    ELSE IF j.result = "absent" THEN Failure("no result")
    ELSE Result(j.result)

\* const json = await res.json(); if (json.error) throw ...; return json.result
jsonOutcome(j) ==
    IF j.kind = "null" THEN Failure("TypeError")
    ELSE IF ErrorIsTruthy(j) THEN Failure("MCP error")
    ELSE IF j.result = "absent" THEN Result("undefined")
    ELSE Result(j.result)

\* readSSEResult(res) over the data lines in order: a line that does not
\* parse, or null, is skipped (only an 'MCP error' is thrown on); the first
\* line with an error throws, the first with a result returns it; the close
\* of the stream throws.
RECURSIVE readSSEResult(_)
readSSEResult(ls) ==
    IF ls = <<>> THEN Failure("MCP server closed without sending a result")
    ELSE LET j == Head(ls)
         IN IF j.kind # "object" THEN readSSEResult(Tail(ls))
            ELSE IF ErrorIsTruthy(j) THEN Failure("MCP error")
            ELSE IF j.result # "absent" THEN Result(j.result)
            ELSE readSSEResult(Tail(ls))

\* if (contentType.includes('text/event-stream')) ... else ...
ReadBody(b) ==
    IF b.transport = "sse" THEN readSSEResult(b.lines) ELSE jsonOutcome(b.lines[1])

ReplyInit ==
    /\ mcpBody = NoBody
    /\ mcpOutcome = Failure("none")

\* A 2xx reply is read.
McpRead ==
    /\ mcpBody = NoBody
    /\ \E b \in Bodies :
         /\ mcpBody' = b
         /\ mcpOutcome' = ReadBody(b)
    /\ UNCHANGED <<chatVars, gwVars, discVars, toolVars, world, ownVars, detailVars>>

\* The reader is called again.
McpReadReset ==
    /\ mcpBody # NoBody
    /\ mcpBody' = NoBody
    /\ mcpOutcome' = Failure("none")
    /\ UNCHANGED <<chatVars, gwVars, discVars, toolVars, world, ownVars, detailVars>>

ReplyNext ==
    \/ McpRead
    \/ McpReadReset

\* The lines of a body that are JSON objects carrying an error or a result.
Telling(b) ==
    {i \in DOMAIN b.lines :
       /\ b.lines[i].kind = "object"
       /\ b.lines[i].error = "object" \/ b.lines[i].result # "absent"}

\* mcpRequest returns exactly when the first such line of the body has no
\* error, and then with that line's result; a body with no such line is a
\* failure.
ResultOrFailure(b, o) ==
    IF Telling(b) = {} THEN ~o.returned
    ELSE LET i == CHOOSE k \in Telling(b) : \A m \in Telling(b) : k <= m
         IN IF b.lines[i].error = "object" THEN ~o.returned
            ELSE o = Result(b.lines[i].result)

\* C30: on both transports a reply with an error is a failure, a result is
\* returned only from the first line that carries one, and a body that ends
\* without a result is a failure.
C30_ResultOrFailure ==
    mcpBody # NoBody => ResultOrFailure(mcpBody, mcpOutcome)

\* The same for event streams alone.
SseResultOrFailure ==
    mcpBody.transport = "sse" => ResultOrFailure(mcpBody, mcpOutcome)

\* The same for JSON replies that carry an error or a result.
JsonResultOrFailure ==
    (mcpBody.transport = "json" /\ Telling(mcpBody) # {}) =>
      ResultOrFailure(mcpBody, mcpOutcome)

\* ------------------------------------------------------------------------
\* streamOpenAI rebuilding tool calls from fragments (part_001 81-107)
\* ------------------------------------------------------------------------

MaxFrags == 2           \* chunks of one provider stream

\* tc.index of the fragments.
AccIndices == {0, 1}

\* A string is the sequence of its pieces; '' is <<>>.
\* What a fragment carries besides its index: the opening of a call, a
\* piece of the arguments, a name with arguments, an id alone.
FragmentBodies ==
    { [id |-> <<"i">>, name |-> <<"n">>, args |-> <<>>],
      [id |-> <<>>,    name |-> <<>>,    args |-> <<"a">>],
      [id |-> <<>>,    name |-> <<>>,    args |-> <<"b">>],
      [id |-> <<>>,    name |-> <<"m">>, args |-> <<"a">>],
      [id |-> <<"j">>, name |-> <<>>,    args |-> <<>>] }

Fragments == [index : AccIndices, body : FragmentBodies]

\* choice.delta.tool_calls: absent, one fragment, or a fragment followed by
\* the opening of another call.
TcLists ==
    {<<>>} \cup {<<f>> : f \in Fragments}
    \cup {p \in {<<f, g>> : f \in Fragments,
                           g \in {h \in Fragments : h.body.id = <<"i">>}} :
            p[1].index # p[2].index}

\* choice.delta.content: '' or a text increment.
TextDeltas == {<<>>, <<"t">>}

StreamChunks == [content : TextDeltas, tool_calls : TcLists]

NoFragAcc == [i \in {} |-> 0]

\* { id: '', name: '', args: '' }
EmptyCall == [id |-> <<>>, name |-> <<>>, args |-> <<>>]

\* The body of for (const tc of tcDeltas)
AccumulateOne(acc, tc) ==
    LET cur == IF tc.index \in DOMAIN acc THEN acc[tc.index] ELSE EmptyCall
        new == [id   |-> cur.id \o tc.body.id,
                name |-> cur.name \o tc.body.name,
                args |-> cur.args \o tc.body.args]
    IN [i \in DOMAIN acc \cup {tc.index} |-> IF i = tc.index THEN new ELSE acc[i]]

RECURSIVE AccumulateFragments(_, _)
AccumulateFragments(acc, tcs) ==
    IF tcs = <<>> THEN acc
    ELSE AccumulateFragments(AccumulateOne(acc, Head(tcs)), Tail(tcs))

\* Variant: the accumulator is declared outside the round loop.
RoundAccKept(acc) == acc

\* const toolCallsAcc = {} at the head of each round
RoundAcc(acc) == NoFragAcc

FragInit ==
    /\ fragAcc = NoFragAcc
    /\ chunkText = <<>>
    /\ arrived = <<>>
    /\ laterRound = FALSE

fragFrame == <<chatVars, gwVars, discVars, toolVars, world, ownVars, replyVars>>

\* One iteration of for await (const chunk of stream).
FragChunk ==
    /\ Len(arrived) < MaxFrags
    /\ \E c \in StreamChunks :
         /\ chunkText' = chunkText \o c.content
         /\ fragAcc' = AccumulateFragments(fragAcc, c.tool_calls)
         /\ arrived' = Append(arrived, c)
    /\ UNCHANGED <<fragFrame, turnVars, textVars, histVars, titleVars, admVars, imgVars,
                   laterRound>>

\* The stream ends with tool calls, they are executed, and the next round
\* begins.
FragNextRound ==
    /\ arrived # <<>>
    /\ fragAcc' = RoundAcc(fragAcc)
    /\ chunkText' = <<>>
    /\ arrived' = <<>>
    /\ laterRound' = TRUE
    /\ UNCHANGED <<fragFrame, turnVars, textVars, histVars, titleVars, admVars, imgVars>>

FragNext ==
    \/ FragChunk
    \/ FragNextRound

\* The fragments of the chunks, in arrival order.
RECURSIVE FragmentsOf(_)
FragmentsOf(chunks) ==
    IF chunks = <<>> THEN <<>>
    ELSE Head(chunks).tool_calls \o FragmentsOf(Tail(chunks))

\* The pieces of one field that the fragments of one index carry, joined.
RECURSIVE Joined(_, _, _)
Joined(frs, idx, field) ==
    IF frs = <<>> THEN <<>>
    ELSE (IF Head(frs).index = idx THEN Head(frs).body[field] ELSE <<>>)
         \o Joined(Tail(frs), idx, field)

IndicesOf(frs) == {frs[k].index : k \in DOMAIN frs}

\* C31: the accumulator holds exactly the indices that had a fragment in the
\* current round, and for each its id, name and arguments are the fragments
\* of that index in this round joined in arrival order.
C31_FragmentsJoined ==
    LET frs == FragmentsOf(arrived)
    IN /\ DOMAIN fragAcc = IndicesOf(frs)
       /\ \A idx \in DOMAIN fragAcc :
            \A field \in {"id", "name", "args"} :
              fragAcc[idx][field] = Joined(frs, idx, field)

\* A later round in which the arguments of call 0 arrived in two pieces
\* around the opening of call 1, the second piece with a text increment.
C31_Witness ==
    /\ laterRound
    /\ Len(arrived) = 2
    /\ Len(arrived[1].tool_calls) = 2
    /\ arrived[1].tool_calls[2].index = 1
    /\ arrived[2].content # <<>>
    /\ 0 \in DOMAIN fragAcc
    /\ fragAcc[0].args = <<"a", "b">>
    /\ fragAcc[1].name = <<"n">>

\* ------------------------------------------------------------------------
\* streamOpenAI extending the message list by tool rounds (part_001 109-150)
\* ------------------------------------------------------------------------

MaxTurns == 2           \* rounds of one request (the code allows MaxRounds)

\* A turn of the message list.
Turn(role, content, calls, id) ==
    [role |-> role, content |-> content, tool_calls |-> calls, tool_call_id |-> id]

\* [...messages]: the system prompt and the user message.
InitialTurns ==
    <<Turn("system", "prompt", <<>>, <<>>), Turn("user", "text", <<>>, <<>>)>>

\* The argument strings of a call: one that parses and one that does not.
ArgStrings == {"{}", "{"}

\* A rebuilt call; the provider gives every call of a request its own id.
Call(r, idx, args) == [id |-> <<r, idx>>, name |-> "n", args |-> args]

\* Object.values(toolCallsAcc): the calls by ascending index.
CallLists(r) ==
    {<<>>}
    \cup {<<Call(r, i, a)>> : i \in AccIndices, a \in ArgStrings}
    \cup {<<Call(r, 0, a), Call(r, 1, b)>> : a, b \in ArgStrings}

\* What one pass of for (const tc of toolCallList) meets: the executor
\* returns, the executor throws, or a callback of the route throws.
ExecOutcomes == {"returns", "throws", "callback throws"}

\* Variant: a call whose executor threw gets no tool turn.
ToolTurnsSkipThrown(msgs, tc, outcome) ==
    IF outcome = "throws" THEN msgs
    ELSE Append(msgs, Turn("tool", "result", <<>>, tc.id))

\* msgsCopy.push({ role: 'tool', tool_call_id: tc.id, content: resultText })
ToolTurns(msgs, tc, outcome) ==
    Append(msgs, Turn("tool", IF outcome = "throws" THEN "Error" ELSE "result",
                      <<>>, tc.id))

\* msgsCopy.push({ role: 'assistant', content: chunkText || null, tool_calls })
AssistantTurn(msgs, text, calls) ==
    Append(msgs, Turn("assistant", text, calls, <<>>))

TurnInit ==
    /\ turnPc = "request"
    /\ turnRound = 0
    /\ msgsCopy = InitialTurns
    /\ turnCalls = <<>>
    /\ turnPos = 0
    /\ requests = 0

turnFrame == <<chatVars, gwVars, discVars, toolVars, world, ownVars, replyVars, fragVars,
               textVars, histVars, titleVars, admVars,
               imgVars>>

\* The provider is asked with msgsCopy and its stream is read to the end.
TurnStream ==
    /\ turnPc = "request"
    /\ requests' = requests + 1
    /\ \E calls \in CallLists(turnRound), text \in {"null", "text"},
          finish \in {"tool_calls", "stop"} :
         IF finish # "tool_calls"
         THEN /\ turnPc' = "returned"
              /\ UNCHANGED <<msgsCopy, turnCalls, turnPos>>
         ELSE /\ msgsCopy' = AssistantTurn(msgsCopy, text, calls)
              /\ turnCalls' = calls
              /\ turnPos' = 1
              /\ turnPc' = "exec"
    /\ UNCHANGED <<turnFrame, turnRound>>

\* One pass of for (const tc of toolCallList).
TurnExec ==
    /\ turnPc = "exec"
    /\ turnPos <= Len(turnCalls)
    /\ \E outcome \in ExecOutcomes :
         IF outcome = "callback throws"
         THEN /\ turnPc' = "caught"
              /\ UNCHANGED <<msgsCopy, turnPos>>
         ELSE /\ msgsCopy' = ToolTurns(msgsCopy, turnCalls[turnPos], outcome)
              /\ turnPos' = turnPos + 1
              /\ UNCHANGED turnPc
    /\ UNCHANGED <<turnFrame, turnRound, turnCalls, requests>>

\* The list is exhausted: round++ and the next request, or the end of the loop.
TurnRoundEnd ==
    /\ turnPc = "exec"
    /\ turnPos > Len(turnCalls)
    /\ turnRound' = turnRound + 1
    /\ turnPc' = IF turnRound + 1 < MaxTurns THEN "request" ELSE "returned"
    /\ UNCHANGED <<turnFrame, msgsCopy, turnCalls, turnPos, requests>>

TurnNext ==
    \/ TurnStream
    \/ TurnExec
    \/ TurnRoundEnd

\* The positions of the assistant turns that list tool calls.
RoundHeads(msgs) ==
    {p \in DOMAIN msgs : p > Len(InitialTurns) /\ msgs[p].role = "assistant"}

\* The turn at p is followed by one tool turn per call, in the order of the
\* calls and with their ids, and by no further tool turn.
Answered(msgs, p) ==
    LET calls == msgs[p].tool_calls
    IN /\ p + Len(calls) <= Len(msgs)
       /\ \A k \in 1..Len(calls) :
            /\ msgs[p + k].role = "tool"
            /\ msgs[p + k].tool_call_id = calls[k].id
       /\ p + Len(calls) < Len(msgs) => msgs[p + Len(calls) + 1].role = "assistant"

\* C32: whenever a provider request is about to be made or the adapter has
\* returned, the list is the initial messages followed by one block per tool
\* round: an assistant turn and one tool turn per call of it, in order, with
\* the call's id; every call id is answered by exactly one tool turn.
C32_EveryCallAnswered ==
    turnPc \in {"request", "returned"} =>
      /\ SubSeq(msgsCopy, 1, Len(InitialTurns)) = InitialTurns
      /\ Cardinality(RoundHeads(msgsCopy)) = turnRound
      /\ Len(msgsCopy) > Len(InitialTurns) =>
           msgsCopy[Len(InitialTurns) + 1].role = "assistant"
      /\ \A p \in RoundHeads(msgsCopy) : Answered(msgsCopy, p)
      /\ \A p \in RoundHeads(msgsCopy) :
           \A k \in DOMAIN msgsCopy[p].tool_calls :
             Cardinality({q \in DOMAIN msgsCopy :
                            /\ msgsCopy[q].role = "tool"
                            /\ msgsCopy[q].tool_call_id = msgsCopy[p].tool_calls[k].id}) = 1

\* A second provider request after a round of two calls, one whose
\* executor threw and one whose arguments did not parse.
C32_Witness ==
    /\ turnPc = "request"
    /\ turnRound = 1
    /\ Len(msgsCopy) = Len(InitialTurns) + 3
    /\ msgsCopy[Len(InitialTurns) + 2].content = "Error"
    /\ msgsCopy[Len(InitialTurns) + 1].tool_calls[2].args = "{"

\* ------------------------------------------------------------------------
\* The text of the response (part_001 55-112, 150-154; part_006 308-350)
\* ------------------------------------------------------------------------

MaxDeltas == 3          \* chunks of one request

\* choice.delta.content of a chunk: absent or '', or a piece of text.
ChunkContents == {<<>>, <<"a">>, <<"b">>}

NotCalled == <<"none">>

\* Variant: fullResponse is declared inside the round loop.
RoundFullReset(full) == <<>>

\* let fullResponse = '' before the round loop: a new round keeps it.
RoundFull(full) == full

\* onChunk: fullResponse += delta
onChunk(full, delta) == full \o delta

TextInit ==
    /\ textPc = "stream"
    /\ textRound = 0
    /\ adapterFull = <<>>
    /\ chatFull = <<>>
    /\ emitted = <<>>
    /\ deltaEvents = <<>>
    /\ doneArg = NotCalled
    /\ saved = NotCalled

textFrame == <<chatVars, gwVars, discVars, toolVars, world, ownVars, replyVars, fragVars,
               turnVars, histVars, titleVars, admVars,
               imgVars>>

\* A chunk of the stream: if (textDelta) { fullResponse += textDelta; onChunk(textDelta) }
TextChunk ==
    /\ textPc = "stream"
    /\ Len(emitted) < MaxDeltas
    /\ \E textDelta \in ChunkContents :
         /\ emitted' = Append(emitted, textDelta)
         /\ IF textDelta # <<>>
            THEN /\ adapterFull' = adapterFull \o textDelta
                 /\ chatFull' = onChunk(chatFull, textDelta)
                 /\ deltaEvents' = Append(deltaEvents, textDelta)
            ELSE UNCHANGED <<adapterFull, chatFull, deltaEvents>>
    /\ UNCHANGED <<textFrame, textPc, textRound, doneArg, saved>>

\* The stream ends with tool calls; they are executed.
TextTools ==
    /\ textPc = "stream"
    /\ textPc' = "tools"
    /\ UNCHANGED <<textFrame, textRound, adapterFull, chatFull, emitted, deltaEvents,
                   doneArg, saved>>

\* The next round begins.
TextNextRound ==
    /\ textPc = "tools"
    /\ textRound + 1 < MaxTurns
    /\ textRound' = textRound + 1
    /\ adapterFull' = RoundFull(adapterFull)
    /\ textPc' = "stream"
    /\ UNCHANGED <<textFrame, chatFull, emitted, deltaEvents, doneArg, saved>>

\* onDone(fullResponse): the stream ended without tool calls, the rounds are
\* used up, or the request was aborted (in a stream or between rounds); the
\* route inserts its own fullResponse.
TextDone ==
    /\ textPc \in {"stream", "tools"}
    /\ doneArg' = adapterFull
    /\ saved' = chatFull
    /\ textPc' = "done"
    /\ UNCHANGED <<textFrame, textRound, adapterFull, chatFull, emitted, deltaEvents>>

\* onError(err): the provider or a callback raised.
TextError ==
    /\ textPc \in {"stream", "tools"}
    /\ textPc' = "error"
    /\ UNCHANGED <<textFrame, textRound, adapterFull, chatFull, emitted, deltaEvents,
                   doneArg, saved>>

TextNext ==
    \/ TextChunk
    \/ TextTools
    \/ TextNextRound
    \/ TextDone
    \/ TextError

RECURSIVE Flat(_)
Flat(pieces) == IF pieces = <<>> THEN <<>> ELSE Head(pieces) \o Flat(Tail(pieces))

\* C33: the completion carries every increment received over all rounds,
\* joined in order, and the row the route inserts is the delta events it
\* wrote, joined in order; nothing is inserted without a completion.
C33_FullTextIsAllDeltas ==
    /\ textPc = "done" => /\ doneArg = Flat(emitted)
                          /\ saved = Flat(deltaEvents)
    /\ textPc # "done" => saved = NotCalled /\ doneArg = NotCalled

\* A completion after increments in two rounds.
C33_Witness ==
    /\ textPc = "done"
    /\ textRound = 1
    /\ emitted = <<(<<"a">>), <<>>, (<<"b">>)>>
    /\ saved = <<"a", "b">>
    /\ doneArg = <<"a", "b">>

\* ------------------------------------------------------------------------
\* The history of a chat request (part_006 222-229, database.js 41-49)
\* ------------------------------------------------------------------------

\* ... ORDER BY created_at DESC LIMIT 60
HistoryLimit == 60

MaxExtra == 3           \* rows of the conversation beyond the limit

\* The seconds at which rows are inserted.
Stamps == {0, 1, 2}

\* The conversation is followed from the moment it holds two messages of
\* one second and then messages of the next second, two short of the limit.
EarlierMessages == [p \in 1..(HistoryLimit - 2) |-> IF p <= 2 THEN 0 ELSE 1]

\* The rows of the conversation: rowids (AUTOINCREMENT) with created_at.
HistRows(table) == {[id |-> p, at |-> table[p]] : p \in DOMAIN table}

\* Variant: no index serves the query and the rows, read by rowid, go
\* through the sorter, which keeps rows of one created_at in reading order.
RECURSIVE SorterDesc(_)
SorterDesc(rows) ==
    IF rows = {} THEN <<>>
    ELSE LET r == CHOOSE x \in rows :
                    \A y \in rows : x.at > y.at \/ (x.at = y.at /\ x.id <= y.id)
         IN <<r>> \o SorterDesc(rows \ {r})

\* WHERE conversation_id = ? ORDER BY created_at DESC: idx_msg_conv
\* (conversation_id, created_at) serves the query; its entries end with the
\* rowid, and it is walked backwards.
RECURSIVE IndexDesc(_)
IndexDesc(rows) ==
    IF rows = {} THEN <<>>
    ELSE LET r == CHOOSE x \in rows :
                    \A y \in rows : x.at > y.at \/ (x.at = y.at /\ x.id >= y.id)
         IN <<r>> \o IndexDesc(rows \ {r})

\* LIMIT n
Limit(q, n) == SubSeq(q, 1, Min(Len(q), n))

\* Array.prototype.reverse()
Reverse(q) == [k \in 1..Len(q) |-> q[Len(q) + 1 - k]]

\* db.prepare('SELECT ... LIMIT 60').all(conv.id).reverse(), as rowids
HistoryOf(table) ==
    LET got == Reverse(Limit(IndexDesc(HistRows(table)), HistoryLimit))
    IN [k \in 1..Len(got) |-> got[k].id]

NotRead == <<0>>

\* Variant: the user message is stored before the history is read.
HistoryReadAfterSave(table, at) == HistoryOf(Append(table, at))

\* The history is read (223-225) before the user message is stored (228).
HistoryRead(table, at) == HistoryOf(table)

\* An element of apiMessages; one that stands for a row, or whose text is
\* stored as a row by this request, carries the rowid.
Entry(role, row) == [role |-> role, row |-> row]

\* [system prompt, research results if any, ...history, current user message]
BuildMessages(h, extraCtx, current) ==
    <<Entry("system", 0)>>
    \o (IF extraCtx THEN <<Entry("system", 0)>> ELSE <<>>)
    \o [k \in 1..Len(h) |-> Entry("stored", h[k])]
    \o <<Entry("user", current)>>

HistInit ==
    /\ histTable = EarlierMessages
    /\ histNow = 1
    /\ history = NotRead
    /\ apiMessages = <<>>

histFrame == <<chatVars, gwVars, discVars, toolVars, world, ownVars, replyVars, fragVars,
               turnVars, textVars, titleVars, admVars,
               imgVars>>

\* POST /api/ai/chat: the history is read, then the user message is stored.
HistChat ==
    /\ Len(histTable) < HistoryLimit + MaxExtra
    /\ history' = HistoryRead(histTable, histNow)
    /\ histTable' = Append(histTable, histNow)
    /\ \E extraCtx \in BOOLEAN :
         apiMessages' = BuildMessages(history', extraCtx, Len(histTable'))
    /\ UNCHANGED <<histFrame, histNow>>

\* onDone: the assistant message is stored.
HistDone ==
    /\ histTable # <<>>
    /\ Len(histTable) < HistoryLimit + MaxExtra
    /\ histTable' = Append(histTable, histNow)
    /\ UNCHANGED <<histFrame, histNow, history, apiMessages>>

\* A second passes.
HistTick ==
    /\ histNow + 1 \in Stamps
    /\ histNow' = histNow + 1
    /\ UNCHANGED <<histFrame, histTable, history, apiMessages>>

HistNext ==
    \/ HistChat
    \/ HistDone
    \/ HistTick

MaxTitleChunks == 3     \* text increments of the title stream

\* Titles are sequences of characters.
NewChat == <<"N">>

\* req.body.title of a rename that passes if (!title).
RenameTitles == {<<"x">>, <<"y", " ">>, <<"N">>}

\* What a chunk of the title stream adds.
TitleDeltas == {<<"a">>, <<" ">>}

\* title.trim().slice(0, 80) || 'New Chat'
FinalTitle(t) == IF JsTrim(t) = <<>> THEN NewChat ELSE JsTrim(t)

\* if (existing?.title && existing.title !== 'New Chat') return
TitleTaskStarts(existing) == existing = <<>> \/ existing = NewChat

TitleInit ==
    /\ convTitle = NewChat
    /\ convMessages = FALSE
    /\ titlePc = "none"
    /\ titleText = <<>>

titleFrame == <<chatVars, gwVars, discVars, toolVars, world, ownVars, replyVars, fragVars,
                turnVars, textVars, histVars, admVars,
               imgVars>>

\* POST /api/ai/chat in this conversation: if (history.length === 0)
\* autoTitle(...), which reads the title and sets the timer.
TitleChat ==
    /\ titlePc \in {"none", "over"}
    /\ convMessages' = TRUE
    /\ IF ~convMessages /\ TitleTaskStarts(convTitle)
       THEN /\ titlePc' = "timer"
            /\ titleText' = <<>>
       ELSE UNCHANGED <<titlePc, titleText>>
    /\ UNCHANGED <<titleFrame, convTitle>>

\* The timer fires: let title = ''; streamChat(...) asks the provider.
TitleTimer ==
    /\ titlePc = "timer"
    /\ titlePc' = "stream"
    /\ titleText' = <<>>
    /\ UNCHANGED <<titleFrame, convTitle, convMessages>>

\* onChunk: (delta) => { title += delta; }
TitleChunk ==
    /\ titlePc = "stream"
    /\ Len(titleText) < MaxTitleChunks
    /\ \E delta \in TitleDeltas : titleText' = titleText \o delta
    /\ UNCHANGED <<titleFrame, convTitle, convMessages, titlePc>>

\* onDone: UPDATE conversations SET title = ? WHERE id = ?
TitleDone ==
    /\ titlePc = "stream"
    /\ convTitle' = FinalTitle(titleText)
    /\ titlePc' = "over"
    /\ UNCHANGED <<titleFrame, convMessages, titleText>>

\* onError: () => {}, or streamChat threw.
TitleError ==
    /\ titlePc = "stream"
    /\ titlePc' = "over"
    /\ UNCHANGED <<titleFrame, convTitle, convMessages, titleText>>

\* PATCH /api/chats/:id with a title: UPDATE ... SET title = title.trim()
TitleRename ==
    /\ \E t \in RenameTitles : convTitle' = JsTrim(t)
    /\ UNCHANGED <<titleFrame, convMessages, titlePc, titleText>>

\* PATCH /api/chats/:id/messages/:msgId on the first message: the
\* conversation is empty again.
TitleEdit ==
    /\ convMessages
    /\ convMessages' = FALSE
    /\ UNCHANGED <<titleFrame, convTitle, titlePc, titleText>>

TitleNext ==
    \/ TitleChat
    \/ TitleTimer
    \/ TitleChunk
    \/ TitleDone
    \/ TitleError
    \/ TitleRename
    \/ TitleEdit

\* C36: the title task's update leaves a title other than the default as
\* it is.
C36_AutoTitleKeepsUserTitle ==
    [][(titlePc = "stream" /\ titlePc' = "over" /\ convTitle # NewChat)
         => convTitle' = convTitle]_vars

\* autoTitle called for a conversation with a title of its own starts no task.
TitledStartsNoTask ==
    [][(titlePc' = "timer" /\ titlePc # "timer") => convTitle = NewChat]_vars

\* ------------------------------------------------------------------------
\* The chat route before the stream: what it writes (part_006 149-176, 228)
\* ------------------------------------------------------------------------

MaxRequests == 3        \* chat requests followed

\* req.body: the message, and conversationId absent, of a conversation of
\* the user, or of none.
AdmRequests == [message : {"text", "blank"}, conv : {"none", "found", "missing"}]

NoAdmRequest == [message : {"none"}, conv : {"none"}]

\* The request as lines 152-176 check it, with the settings of the user.
Checked(req, key) ==
    [message |-> req.message,
     conv |-> IF req.conv = "missing" THEN "missing" ELSE "ok",
     provider |-> "openai", key |-> key]

\* if (conversationId) { SELECT ... } else { INSERT INTO conversations ... }
\* runs once the message is known not to be blank (152-162).
ConversationRows(req, convs) ==
    IF req.message # "blank" /\ req.conv = "none" THEN convs + 1 ELSE convs

\* INSERT INTO messages ... 'user' (228), reached by an accepted request.
MessageRows(req, key, msgs) ==
    IF ChatPrecheck(Checked(req, key)) = 0 THEN msgs + 1 ELSE msgs

AdmInit ==
    /\ admConvs = 0
    /\ admMsgs = 0
    /\ admKey = FALSE
    /\ admReq \in NoAdmRequest
    /\ admStatus = 0
    /\ admSeq = 0

admFrame == <<chatVars, gwVars, discVars, toolVars, world, ownVars, replyVars, fragVars,
              turnVars, textVars, histVars, titleVars,
               imgVars>>

\* POST /api/ai/chat up to its answer or to the stream.
AdmChat ==
    /\ admSeq < MaxRequests
    /\ \E req \in AdmRequests :
         /\ req.conv = "found" => admConvs > 0
         /\ admReq' = req
         /\ admStatus' = ChatPrecheck(Checked(req, admKey))
         /\ admConvs' = ConversationRows(req, admConvs)
         /\ admMsgs' = MessageRows(req, admKey, admMsgs)
    /\ admSeq' = admSeq + 1
    /\ UNCHANGED <<admFrame, admKey>>

\* PATCH /api/settings sets or clears openai_api_key.
AdmSetKey ==
    /\ admKey' = ~admKey
    /\ UNCHANGED <<admFrame, admConvs, admMsgs, admReq, admStatus, admSeq>>

AdmNext ==
    \/ AdmChat
    \/ AdmSetKey

\* C37: a chat request answered with 400, 404 or 503 leaves the
\* conversations and the messages as they were.
C37_RejectedWritesNothing ==
    [][(admSeq' = admSeq + 1 /\ admStatus' # 0)
         => (admConvs' = admConvs /\ admMsgs' = admMsgs)]_vars

\* The same for requests rejected as blank or for their conversation.
RejectedEarlyWritesNothing ==
    [][(admSeq' = admSeq + 1 /\ admStatus' \in {400, 404})
         => (admConvs' = admConvs /\ admMsgs' = admMsgs)]_vars

\* The same for requests that name a conversation.
RejectedInConversationWritesNothing ==
    [][(admSeq' = admSeq + 1 /\ admStatus' # 0 /\ admReq'.conv # "none")
         => (admConvs' = admConvs /\ admMsgs' = admMsgs)]_vars

\* ------------------------------------------------------------------------
\* generate_image and the cached client (tools.js 96-104, 169-193)
\* ------------------------------------------------------------------------

Users == {"A", "B"}

\* API keys; two users may have the same one.
ApiKeys == {"k1", "k2"}

NoClient == [apiKey |-> "null"]

NoKey == "unset"

\* new OpenAI({ apiKey }) with _apiKey = apiKey
Client(apiKey) == [apiKey |-> apiKey]

\* Variant: the cached client is reused whatever its key.
getOpenAIAnyKey(cached, apiKey) ==
    IF cached = NoClient THEN Client(apiKey) ELSE cached

\* getOpenAI(apiKey): the value of _cachedOpenAI after the call, which is
\* the client returned.
getOpenAI(cached, apiKey) ==
    IF cached = NoClient \/ cached.apiKey # apiKey THEN Client(apiKey) ELSE cached

ImgInit ==
    /\ cachedOpenAI = NoClient
    /\ userKey = [u \in Users |-> NoKey]
    /\ imgPc = [u \in Users |-> "idle"]
    /\ ctxKey = [u \in Users |-> NoKey]
    /\ imgIssued = {}

imgFrame == <<chatVars, gwVars, discVars, toolVars, world, ownVars, replyVars, fragVars,
              turnVars, textVars, histVars, titleVars, admVars>>

\* PATCH /api/settings: the user sets an API key.
ImgSetKey ==
    /\ \E u \in Users, k \in ApiKeys : userKey' = [userKey EXCEPT ![u] = k]
    /\ UNCHANGED <<imgFrame, cachedOpenAI, imgPc, ctxKey, imgIssued>>

\* POST /api/ai/chat of a user with a key: toolContext = { userId, tavilyKey,
\* apiKey: userApiKey }.
ImgChat ==
    /\ \E u \in Users :
         /\ imgPc[u] = "idle"
         /\ userKey[u] # NoKey
         /\ imgPc' = [imgPc EXCEPT ![u] = "chat"]
         /\ ctxKey' = [ctxKey EXCEPT ![u] = userKey[u]]
    /\ UNCHANGED <<imgFrame, cachedOpenAI, userKey, imgIssued>>

\* case 'generate_image': getOpenAI(apiKey), then openai.images.generate(...)
\* is issued and awaited.
ImgGenerate ==
    /\ \E u \in Users :
         /\ imgPc[u] = "chat"
         /\ cachedOpenAI' = getOpenAI(cachedOpenAI, ctxKey[u])
         /\ imgIssued' = imgIssued \cup
              {[user |-> u, own |-> ctxKey[u], client |-> cachedOpenAI'.apiKey]}
         /\ imgPc' = [imgPc EXCEPT ![u] = "image"]
    /\ UNCHANGED <<imgFrame, userKey, ctxKey>>

\* The image request settles and the tool returns its text.
ImgSettle ==
    /\ \E u \in Users :
         /\ imgPc[u] = "image"
         /\ imgPc' = [imgPc EXCEPT ![u] = "chat"]
    /\ UNCHANGED <<imgFrame, cachedOpenAI, userKey, ctxKey, imgIssued>>

\* The chat request of the user ends.
ImgEnd ==
    /\ \E u \in Users :
         /\ imgPc[u] = "chat"
         /\ imgPc' = [imgPc EXCEPT ![u] = "idle"]
    /\ UNCHANGED <<imgFrame, cachedOpenAI, userKey, ctxKey, imgIssued>>

ImgNext ==
    \/ ImgSetKey
    \/ ImgChat
    \/ ImgGenerate
    \/ ImgSettle
    \/ ImgEnd

\* C39: every image request was issued with a client built from the key of
\* the user it was made for.
C39_OwnKeyClient ==
    \A e \in imgIssued : e.client = e.own

\* Two users with different keys, each with an image request issued while
\* the other's was awaited, the client of the process being the second's.
C39_Witness ==
    /\ imgPc = [u \in Users |-> "image"]
    /\ ctxKey["A"] # ctxKey["B"]
    /\ \E e \in imgIssued : e.user = "A" /\ e.own = ctxKey["A"]
    /\ \E e \in imgIssued : e.user = "B" /\ e.own = ctxKey["B"]
    /\ cachedOpenAI.apiKey = ctxKey["B"]

\* C35: the message array of a request ends with the user message of the
\* request, and no other element of it is the row that message was stored
\* as.
C35_UserMessageOnce ==
    apiMessages # <<>> =>
      LET last == apiMessages[Len(apiMessages)]
      IN /\ last.role = "user"
         /\ last.row \in DOMAIN histTable
         /\ last.row > history[Len(history)]
         /\ \A k \in 1..(Len(apiMessages) - 1) :
              /\ apiMessages[k].row # last.row
              /\ apiMessages[k].role # "user"

\* A request in a conversation with stored messages, with research results.
C35_Witness ==
    /\ Len(apiMessages) = Len(history) + 3
    /\ Len(history) = HistoryLimit
    /\ apiMessages[Len(apiMessages)].row = Len(histTable)
    /\ apiMessages[Len(apiMessages) - 1] = Entry("stored", Len(histTable) - 1)

\* ------------------------------------------------------------------------
\* Specifications
\* ------------------------------------------------------------------------
Init ==
    /\ ChatInit
    /\ GwInit
    /\ DiscInit
    /\ ToolInit
    /\ StoreInit
    /\ OwnInit
    /\ ReplyInit
    /\ FragInit
    /\ TurnInit
    /\ TextInit
    /\ HistInit
    /\ TitleInit
    /\ AdmInit
    /\ ImgInit

\* One chat request, discovery taken as a whole.
Spec == Init /\ [][Next]_vars

\* The same, with the awaited calls of the adapter settling.
FairSpec == Spec /\ WF_vars(AdapterStep)

\* One operation of the remote gateway.
GatewaySpec == Init /\ [][GatewayNext]_vars

\* The start of a chat request with discovery in detail.
DiscoverySpec == Init /\ [][DiscoveryNext]_vars

\* Tool calls of the registry and requests to the memory endpoint.
ToolsSpec == Init /\ [][ToolsNext]_vars

\* The memory table filling up with new contents.
MemoryCapSpec == Init /\ [][MemoryCapNext]_vars

\* Requests to the settings and remote-server endpoints on two states of a
\* user that differ in the values of the secrets.
SecretsSpec == Init /\ [][StoreNext]_vars

\* The requests of one user on tables that hold another user's rows.
OwnershipSpec == Init /\ [][OwnershipNext]_vars

\* Chat requests and message edits within and across seconds.
EditSpec == Init /\ [][EditNext]_vars

\* Replies of a remote server read by mcpRequest.
ReplySpec == Init /\ [][ReplyNext]_vars

\* One provider stream after another, chunk by chunk.
FragmentSpec == Init /\ [][FragNext]_vars

\* The tool rounds of one request, call by call.
TurnSpec == Init /\ [][TurnNext]_vars

\* The text of one response over its rounds.
TextSpec == Init /\ [][TextNext]_vars

\* Chat requests of one conversation, one after another.
HistorySpec == Init /\ [][HistNext]_vars

\* The title task of a conversation beside rename requests.
TitleSpec == Init /\ [][TitleNext]_vars

\* Chat requests up to their answer, beside changes of the credential.
AdmissionSpec == Init /\ [][AdmNext]_vars

\* Image generations of two users through the client of the process.
ImageSpec == Init /\ [][ImgNext]_vars

====
